---- MODULE Spec2Model ----
(***************************************************************************)
(* State-machine model of the sim-backtest engine: the order-book store,   *)
(* the depth-walking slippage calculator, the spread scanner and the       *)
(* position lifecycle driven by BacktestEngine.run.                        *)
(*                                                                         *)
(* Numbers.  Book prices and quantities are whole numbers.  Every value    *)
(* the code computes as a Decimal (execution prices, fees, PnL, spreads    *)
(* and slippage in bps) is held in units of 1/Scale, and a Decimal         *)
(* division is a rounded division at that resolution (ROUND_HALF_EVEN,     *)
(* the default of Python's decimal context).                               *)
(*                                                                         *)
(* Specifications.  Spec is BacktestEngine.run from connect() to its end,  *)
(* fed with snapshots in non-decreasing timestamp order.  SpecPlayback is  *)
(* OrderbookPlayback iterating over a table of stored rows, SpecCalculator *)
(* is one call of SlippageCalculator.calculate, SpecScanner is one call    *)
(* of _find_spread_opportunity on a store of three venues, and             *)
(* SpecExchange is one SimulatedExchange under any calls of place_order,   *)
(* update_orderbook and cancel_order.  SpecRerun is Spec with the trade    *)
(* ids of a second run over the same snapshots beside it, SpecScenario is  *)
(* run on the four snapshots of the single-trade scenario, and             *)
(* SpecNegativeSize is Spec with a negative size_in_coins.  SpecBook reads *)
(* the derived values of one OrderbookSnapshot, and SpecPlay is            *)
(* OrderbookPlayback.play with a callback registered by on_snapshot.       *)
(***************************************************************************)
EXTENDS Integers, Sequences, FiniteSets, TLC

VARIABLES
    config,            \* BacktestConfig of the run
    orderbook_store,   \* InMemoryOrderbookStore._books, with its key order
    current_book,      \* SimulatedExchange._current_book of each venue
    open_positions,    \* BacktestEngine.open_positions, in insertion order
    closed_positions,  \* BacktestEngine.closed_positions
    equity_curve,      \* BacktestEngine.equity_curve
    emitted,           \* run(): what the iteration called, in order
    peak_equity,       \* BacktestEngine.peak_equity
    current_equity,    \* BacktestEngine.current_equity
    next_trade_id,     \* source of fresh trade ids
    snapshot,          \* run(): the snapshot of the current loop iteration
    spread_info,       \* run(): what the scanner returned in this iteration
    trade,             \* run(): the trade entered in this iteration
    snapshot_count,    \* run(): snapshots processed
    spread_sum,        \* run(): sum of the scanner's spread_bps
    opportunity_count, \* run(): snapshots with an opportunity
    slippage_sum,      \* run(): sum of total_slippage_bps over entries
    pc,                \* run(): where the call is, or how it ended
    result,            \* BacktestResult, filled in after the loop
    close_calls,       \* run(): number of calls of playback.close()
    table,             \* rows of the orderbook_snapshots table
    playback,          \* OrderbookPlayback: its constructor arguments
    current_batch,     \* OrderbookPlayback._current_batch
    batch_index,       \* OrderbookPlayback._batch_index
    last_timestamp,    \* OrderbookPlayback._last_timestamp
    exhausted,         \* OrderbookPlayback._exhausted
    yielded,           \* the snapshots __anext__ has returned, in order
    observed,          \* the calls of a registered _on_snapshot, else None
    loads,             \* number of _load_batch calls
    stops,             \* number of StopAsyncIteration raised by __anext__
    request,           \* SlippageCalculator.calculate: its arguments
    slippage,          \* SlippageCalculator.calculate: the result returned
    venue,             \* a SimulatedExchange holding orders
    call,              \* the last call of that venue and its outcome
    book_updates,      \* number of update_orderbook calls of that venue
    books_received,    \* the last book of each symbol that venue was given
    rerun,             \* a second run compared with run(): its trade ids
    derived            \* the derived values read from a book

vars == <<config, orderbook_store, current_book, open_positions,
          closed_positions, equity_curve, emitted, peak_equity, current_equity,
          next_trade_id, snapshot, spread_info, trade, snapshot_count,
          spread_sum, opportunity_count, slippage_sum, pc, result, close_calls, table, playback,
          current_batch, batch_index, last_timestamp, exhausted, yielded,
          observed,
          loads, stops, request, slippage, venue, call, book_updates,
          books_received, rerun, derived>>

engine_vars == <<config, orderbook_store, current_book, open_positions,
                 closed_positions, equity_curve, emitted, peak_equity, current_equity,
                 next_trade_id, snapshot, spread_info, trade, snapshot_count,
                 spread_sum, opportunity_count, slippage_sum, pc, result, close_calls>>

playback_vars == <<table, playback, current_batch, batch_index,
                   last_timestamp, exhausted, yielded, observed, loads,
                   stops>>

calculator_vars == <<request, slippage>>

exchange_vars == <<venue, call, book_updates, books_received>>

\* what the actions of each component leave alone
outside_run == <<playback_vars, calculator_vars, exchange_vars>>
outside_engine == <<outside_run, rerun, derived>>
outside_playback == <<engine_vars, calculator_vars, exchange_vars, rerun, derived>>
outside_calculator == <<engine_vars, playback_vars, exchange_vars, rerun, derived>>
outside_exchange == <<engine_vars, playback_vars, calculator_vars, rerun,
                      derived>>

-----------------------------------------------------------------------------
(* Bounds of the exploration *)

MaxSnapshots == 4
MaxRows == 3
MaxStops == 2
MaxLevels == 3
MaxOrders == 2
MaxBookUpdates == 2
MaxBookDepth == 2

-----------------------------------------------------------------------------
(* Optional values and Decimal arithmetic *)

None == <<>>
Some(x) == <<x>>
IsSome(o) == o # <<>>
Val(o) == o[1]

Scale == 10^4
Dec(n) == n * Scale

Min(a, b) == IF a <= b THEN a ELSE b
Abs(a) == IF a < 0 THEN 0 - a ELSE a

\* n / d rounded to the nearest unit, ties to even (d > 0)
RoundDiv(n, d) ==
    LET q == n \div d
        r == n - q * d
    IN  IF 2 * r < d THEN q
        ELSE IF 2 * r > d THEN q + 1
        ELSE IF q % 2 = 0 THEN q ELSE q + 1

\* Decimal a / b for a Decimal a and a whole number b
DecDiv(a, b) == RoundDiv(a, b)

RECURSIVE GCD(_, _)
GCD(a, b) == IF b = 0 THEN a ELSE GCD(b, a % b)

\* n * m / d rounded once; m and d are reduced first so that the product
\* stays in the range of the checker's integers (m > 0, d > 0)
MulDiv(n, m, d) ==
    LET g == GCD(m, d)
    IN  RoundDiv(n * (m \div g), d \div g)

\* (a / b) * Decimal("10000") for a Decimal a and a whole number b: the
\* quotient keeps its digits, so the product is rounded once
DecBps(a, b) == MulDiv(a, 10000, b)

\* (a / b) * Decimal("10000") for two Decimals a and b
DecRatioBps(a, b) == MulDiv(a, 10000 * Scale, b)

RECURSIVE SumSeq(_)
SumSeq(s) == IF s = <<>> THEN 0 ELSE Head(s) + SumSeq(Tail(s))

-----------------------------------------------------------------------------
(* Book model: orderbook.py *)

Exchanges == {"binance", "bybit"}
Symbols == {"BTC", "ETH"}

Level(p, q) == [price |-> p, quantity |-> q]

OrderbookSnapshot(ex, sym, ts, b, a) ==
    [exchange |-> ex, symbol |-> sym, timestamp |-> ts, bids |-> b, asks |-> a]

best_bid(book) == IF book.bids # <<>> THEN Some(book.bids[1]) ELSE None
best_ask(book) == IF book.asks # <<>> THEN Some(book.asks[1]) ELSE None

\* the truth value of an Optional[Decimal] in an if
Truthy(o) == o # None /\ Val(o) # 0

\* best_bid and best_ask are objects, true whenever present
mid_price(book) ==
    IF best_bid(book) # None /\ best_ask(book) # None
    THEN Some(RoundDiv(Dec(book.bids[1].price + book.asks[1].price), 2))
    ELSE None

spread(book) ==
    IF best_bid(book) # None /\ best_ask(book) # None
    THEN Some(Dec(book.asks[1].price - book.bids[1].price))
    ELSE None

spread_bps(book) ==
    IF Truthy(mid_price(book)) /\ Truthy(spread(book))
    THEN Some(DecRatioBps(Val(spread(book)), Val(mid_price(book))))
    ELSE None

-----------------------------------------------------------------------------
(* Fee schedule: slippage.py *)

FeeStructure(maker, taker) == [maker_fee_bps |-> maker, taker_fee_bps |-> taker]

DefaultFees == FeeStructure(2, 5)

EXCHANGE_FEES ==
    [ex \in {"binance", "bybit"} |->
        IF ex = "binance" THEN FeeStructure(2, 4) ELSE FeeStructure(1, 6)]

get_fees(exchange) ==
    IF exchange \in DOMAIN EXCHANGE_FEES THEN EXCHANGE_FEES[exchange]
    ELSE DefaultFees

\* fee rate as a Decimal: bps / 10000
get_fee(fees, is_maker) ==
    DecDiv(Dec(IF is_maker THEN fees.maker_fee_bps ELSE fees.taker_fee_bps),
           10000)

-----------------------------------------------------------------------------
(* Slippage calculator: slippage.py *)

SlippageResult(expected, actual, sabs, sbps, cost, filled, unfilled, fills, insuff) ==
    [expected_price |-> expected, actual_price |-> actual,
     slippage_abs |-> sabs, slippage_bps |-> sbps, total_cost |-> cost,
     filled_quantity |-> filled, unfilled_quantity |-> unfilled,
     fills |-> fills, insufficient_liquidity |-> insuff]

\* variant of the loop that takes every level whole
RECURSIVE WalkBook_takes_whole_levels(_, _, _, _, _)
WalkBook_takes_whole_levels(levels, i, remaining, fills, total_value) ==
    IF i > Len(levels) \/ remaining <= 0
    THEN [remaining |-> remaining, fills |-> fills,
          total_value |-> total_value]
    ELSE WalkBook_takes_whole_levels(
             levels, i + 1, remaining - levels[i].quantity,
             Append(fills, <<levels[i].price, levels[i].quantity>>),
             total_value + levels[i].quantity * levels[i].price)

\* the loop over the levels: stops when nothing remains or the side ends
RECURSIVE WalkBook(_, _, _, _, _)
WalkBook(levels, i, remaining, fills, total_value) ==
    IF i > Len(levels) \/ remaining <= 0
    THEN [remaining |-> remaining, fills |-> fills,
          total_value |-> total_value]
    ELSE LET fill_qty == Min(remaining, levels[i].quantity)
         IN  WalkBook(levels, i + 1, remaining - fill_qty,
                      Append(fills, <<levels[i].price, fill_qty>>),
                      total_value + fill_qty * levels[i].price)

calculate_full(orderbook, side, size_in_coins, include_fees, is_aggressive) ==
    LET levels == IF side = "buy" THEN orderbook.asks ELSE orderbook.bids
    IN  IF levels = <<>>
        THEN SlippageResult(0, 0, 0, 0, 0, 0, size_in_coins, <<>>, TRUE)
        ELSE
        LET expected_price == Dec(levels[1].price)
            w == WalkBook(levels, 1, size_in_coins, <<>>, 0)
            filled_quantity == size_in_coins - w.remaining
        IN  IF filled_quantity = 0
            THEN SlippageResult(expected_price, 0, 0, 0, 0, 0, size_in_coins,
                                <<>>, TRUE)
            ELSE
            LET total_value == Dec(w.total_value)
                actual_price == DecDiv(total_value, filled_quantity)
                slippage_abs == IF side = "buy"
                                THEN actual_price - expected_price
                                ELSE expected_price - actual_price
                slippage_bps == IF expected_price > 0
                                THEN DecBps(slippage_abs, levels[1].price)
                                ELSE 0
                fee_rate == get_fee(get_fees(orderbook.exchange),
                                    ~is_aggressive)
                fee_amount == (w.total_value * fee_rate)
                total_cost == IF include_fees THEN total_value + fee_amount
                              ELSE total_value
            IN  SlippageResult(expected_price, actual_price,
                               Abs(slippage_abs), Abs(slippage_bps),
                               total_cost, filled_quantity, w.remaining,
                               w.fills, w.remaining > 0)

\* the engine always calls with the defaults include_fees, is_aggressive
calculate(orderbook, side, size_in_coins) ==
    calculate_full(orderbook, side, size_in_coins, TRUE, TRUE)

-----------------------------------------------------------------------------
(* Book store: orderbook.py, InMemoryOrderbookStore *)

\* _books: exchange -> symbol -> snapshot; keys lists the exchanges in the
\* order the dict received them
EmptyStore == [keys |-> <<>>, books |-> <<>>]

IndexOf(seq, x) == CHOOSE i \in 1..Len(seq) : seq[i] = x
InSeq(seq, x) == \E i \in 1..Len(seq) : seq[i] = x

\* variant of update that replaces the venue's whole entry
store_update_replaces_venue(store, snap) ==
    IF InSeq(store.keys, snap.exchange)
    THEN LET i == IndexOf(store.keys, snap.exchange)
         IN  [store EXCEPT !.books[i] = (snap.symbol :> snap)]
    ELSE [keys |-> Append(store.keys, snap.exchange),
          books |-> Append(store.books, (snap.symbol :> snap))]

\* update: _books[exchange][symbol] = snapshot
store_update(store, snap) ==
    IF InSeq(store.keys, snap.exchange)
    THEN LET i == IndexOf(store.keys, snap.exchange)
         IN  [store EXCEPT !.books[i] =
                 (snap.symbol :> snap) @@ store.books[i]]
    ELSE [keys |-> Append(store.keys, snap.exchange),
          books |-> Append(store.books, (snap.symbol :> snap))]

store_get(store, exchange, symbol) ==
    IF InSeq(store.keys, exchange)
       /\ symbol \in DOMAIN store.books[IndexOf(store.keys, exchange)]
    THEN Some(store.books[IndexOf(store.keys, exchange)][symbol])
    ELSE None

\* the exchanges holding a book for the symbol, in the store's key order
RECURSIVE exchanges_with_symbol(_, _, _)
exchanges_with_symbol(store, symbol, i) ==
    IF i > Len(store.keys) THEN <<>>
    ELSE (IF symbol \in DOMAIN store.books[i] THEN <<store.keys[i]>> ELSE <<>>)
         \o exchanges_with_symbol(store, symbol, i + 1)

get_all_for_symbol(store, symbol) == exchanges_with_symbol(store, symbol, 1)

-----------------------------------------------------------------------------
(* Spread scanner: backtest.py, BacktestEngine._find_spread_opportunity *)

BookOf(store, exchange, symbol) == Val(store_get(store, exchange, symbol))

SpreadInfo(symbol, long_ex, short_ex, long_book, short_book, bps, size) ==
    LET long_slip == calculate(long_book, "buy", size)
        short_slip == calculate(short_book, "sell", size)
    IN  [symbol |-> symbol,
         long_exchange |-> long_ex,
         short_exchange |-> short_ex,
         long_book |-> long_book,
         short_book |-> short_book,
         spread_bps |-> bps,
         long_slippage |-> long_slip,
         short_slippage |-> short_slip,
         total_slippage_bps |-> long_slip.slippage_bps + short_slip.slippage_bps,
         can_execute |-> ~(long_slip.insufficient_liquidity
                           \/ short_slip.insufficient_liquidity)]

\* variant of the comparison with the best so far that also accepts a tie
ExceedsBest_or_ties(bps, best_spread_bps) ==
    best_spread_bps = None \/ bps >= Val(best_spread_bps)

\* best_spread_bps starts at Decimal("-inf"): None stands for it
ExceedsBest(bps, best_spread_bps) ==
    best_spread_bps = None \/ bps > Val(best_spread_bps)

\* variant of the inner loop's body whose second direction replaces the
\* best candidate without comparing with it
ScanPair_overwrites_best(acc, ex1, ex2, store, symbol, size) ==
    LET book1 == BookOf(store, ex1, symbol)
        book2 == BookOf(store, ex2, symbol)
    IN  IF best_bid(book1) = None \/ best_ask(book1) = None THEN acc
        ELSE IF best_bid(book2) = None \/ best_ask(book2) = None THEN acc
        ELSE
        LET spread1 == DecBps(Dec(book2.bids[1].price - book1.asks[1].price),
                              book1.asks[1].price)
            spread2 == DecBps(Dec(book1.bids[1].price - book2.asks[1].price),
                              book2.asks[1].price)
        IN  IF spread1 > spread2
            THEN IF ExceedsBest(spread1, acc.best_spread_bps)
                 THEN [best_spread_bps |-> Some(spread1),
                       best_spread |-> Some(SpreadInfo(symbol, ex1, ex2, book1,
                                                       book2, spread1, size))]
                 ELSE acc
            ELSE [best_spread_bps |-> Some(spread2),
                  best_spread |-> Some(SpreadInfo(symbol, ex2, ex1, book2,
                                                  book1, spread2, size))]

\* variant of the inner loop's body that skips a pair only for a missing
\* ask and reads a missing bid as 0
ScanPair_bids_not_checked(acc, ex1, ex2, store, symbol, size) ==
    LET book1 == BookOf(store, ex1, symbol)
        book2 == BookOf(store, ex2, symbol)
        bid1 == IF book1.bids = <<>> THEN 0 ELSE book1.bids[1].price
        bid2 == IF book2.bids = <<>> THEN 0 ELSE book2.bids[1].price
    IN  IF best_ask(book1) = None THEN acc
        ELSE IF best_ask(book2) = None THEN acc
        ELSE
        LET spread1 == DecBps(Dec(bid2 - book1.asks[1].price),
                              book1.asks[1].price)
            spread2 == DecBps(Dec(bid1 - book2.asks[1].price),
                              book2.asks[1].price)
        IN  IF spread1 > spread2 /\ ExceedsBest(spread1, acc.best_spread_bps)
            THEN [best_spread_bps |-> Some(spread1),
                  best_spread |-> Some(SpreadInfo(symbol, ex1, ex2, book1,
                                                  book2, spread1, size))]
            ELSE IF ExceedsBest(spread2, acc.best_spread_bps)
            THEN [best_spread_bps |-> Some(spread2),
                  best_spread |-> Some(SpreadInfo(symbol, ex2, ex1, book2,
                                                  book1, spread2, size))]
            ELSE acc

\* the body of the inner loop for one pair (ex1, ex2)
ScanPair(acc, ex1, ex2, store, symbol, size) ==
    LET book1 == BookOf(store, ex1, symbol)
        book2 == BookOf(store, ex2, symbol)
    IN  IF best_bid(book1) = None \/ best_ask(book1) = None THEN acc
        ELSE IF best_bid(book2) = None \/ best_ask(book2) = None THEN acc
        ELSE
        LET spread1 == DecBps(Dec(book2.bids[1].price - book1.asks[1].price),
                              book1.asks[1].price)
            spread2 == DecBps(Dec(book1.bids[1].price - book2.asks[1].price),
                              book2.asks[1].price)
        IN  IF spread1 > spread2 /\ ExceedsBest(spread1, acc.best_spread_bps)
            THEN [best_spread_bps |-> Some(spread1),
                  best_spread |-> Some(SpreadInfo(symbol, ex1, ex2, book1,
                                                  book2, spread1, size))]
            ELSE IF ExceedsBest(spread2, acc.best_spread_bps)
            THEN [best_spread_bps |-> Some(spread2),
                  best_spread |-> Some(SpreadInfo(symbol, ex2, ex1, book2,
                                                  book1, spread2, size))]
            ELSE acc

\* for i, ex1 in enumerate(exchanges): for ex2 in exchanges[i+1:]
RECURSIVE ScanPairs(_, _, _, _, _, _, _)
ScanPairs(acc, exchanges, i, j, store, symbol, size) ==
    IF i > Len(exchanges) THEN acc
    ELSE IF j > Len(exchanges)
    THEN ScanPairs(acc, exchanges, i + 1, i + 2, store, symbol, size)
    ELSE ScanPairs(ScanPair(acc, exchanges[i], exchanges[j], store, symbol,
                            size),
                   exchanges, i, j + 1, store, symbol, size)

find_spread_opportunity(store, snap, cfg) ==
    LET exchanges == get_all_for_symbol(store, snap.symbol)
    IN  IF Len(exchanges) < 2 THEN None
        ELSE ScanPairs([best_spread_bps |-> None, best_spread |-> None],
                       exchanges, 1, 2, store, snap.symbol,
                       cfg.size_in_coins).best_spread

-----------------------------------------------------------------------------
(* Position engine: backtest.py *)

\* variants of should_enter with one check missing
should_enter_no_cap(info, open, cfg) ==
    IF info.spread_bps < cfg.entry_spread_threshold_bps THEN FALSE
    ELSE IF info.total_slippage_bps > cfg.max_slippage_bps THEN FALSE
    ELSE IF ~info.can_execute THEN FALSE
    ELSE IF \E k \in 1..Len(open) : open[k].canonical_symbol = info.symbol
    THEN FALSE
    ELSE TRUE

should_enter_no_symbol_check(info, open, cfg) ==
    IF Len(open) >= cfg.max_concurrent_positions THEN FALSE
    ELSE IF info.spread_bps < cfg.entry_spread_threshold_bps THEN FALSE
    ELSE IF info.total_slippage_bps > cfg.max_slippage_bps THEN FALSE
    ELSE IF ~info.can_execute THEN FALSE
    ELSE TRUE

should_enter_no_liquidity_check(info, open, cfg) ==
    IF Len(open) >= cfg.max_concurrent_positions THEN FALSE
    ELSE IF info.spread_bps < cfg.entry_spread_threshold_bps THEN FALSE
    ELSE IF info.total_slippage_bps > cfg.max_slippage_bps THEN FALSE
    ELSE IF \E k \in 1..Len(open) : open[k].canonical_symbol = info.symbol
    THEN FALSE
    ELSE TRUE

should_enter(info, open, cfg) ==
    IF Len(open) >= cfg.max_concurrent_positions THEN FALSE
    ELSE IF info.spread_bps < cfg.entry_spread_threshold_bps THEN FALSE
    ELSE IF info.total_slippage_bps > cfg.max_slippage_bps THEN FALSE
    ELSE IF ~info.can_execute THEN FALSE
    ELSE IF \E k \in 1..Len(open) : open[k].canonical_symbol = info.symbol
    THEN FALSE
    ELSE TRUE

\* the SpreadTrade built by _enter_spread
\* variant of _enter_spread that takes each entry price from the other leg
enter_spread_prices_swapped(info, timestamp, id, cfg) ==
    [trade_id |-> id,
     canonical_symbol |-> info.symbol,
     long_exchange |-> info.long_exchange,
     short_exchange |-> info.short_exchange,
     entry_time |-> timestamp,
     size_in_coins |-> cfg.size_in_coins,
     long_entry_price |-> info.short_slippage.actual_price,
     short_entry_price |-> info.long_slippage.actual_price,
     entry_spread_bps |-> info.spread_bps,
     exit_time |-> None,
     long_exit_price |-> None,
     short_exit_price |-> None,
     exit_spread_bps |-> None,
     gross_pnl |-> 0,
     fees |-> 0,
     net_pnl |-> 0,
     is_open |-> TRUE]

enter_spread(info, timestamp, id, cfg) ==
    LET long_slip == info.long_slippage
        short_slip == info.short_slippage
    IN  [trade_id |-> id,
         canonical_symbol |-> info.symbol,
         long_exchange |-> info.long_exchange,
         short_exchange |-> info.short_exchange,
         entry_time |-> timestamp,
         size_in_coins |-> cfg.size_in_coins,
         long_entry_price |-> long_slip.actual_price,
         short_entry_price |-> short_slip.actual_price,
         entry_spread_bps |-> info.spread_bps,
         exit_time |-> None,
         long_exit_price |-> None,
         short_exit_price |-> None,
         exit_spread_bps |-> None,
         gross_pnl |-> 0,
         fees |-> long_slip.total_cost
                  - long_slip.actual_price * long_slip.filled_quantity
                  + short_slip.total_cost
                  - short_slip.actual_price * short_slip.filled_quantity,
         net_pnl |-> 0,
         is_open |-> TRUE]

\* variant of exit_spread that overwrites the fees instead of adding to them
exit_spread_fees_overwritten(t, timestamp, long_book, short_book) ==
    LET long_exit == calculate(long_book, "sell", t.size_in_coins)
        short_exit == calculate(short_book, "buy", t.size_in_coins)
        gross == (long_exit.actual_price - t.long_entry_price)
                     * t.size_in_coins
                 + (t.short_entry_price - short_exit.actual_price)
                     * t.size_in_coins
        exit_fees == long_exit.total_cost
                     - long_exit.actual_price * long_exit.filled_quantity
                     + short_exit.total_cost
                     - short_exit.actual_price * short_exit.filled_quantity
    IN  [t EXCEPT
           !.exit_time = Some(timestamp),
           !.long_exit_price = Some(long_exit.actual_price),
           !.short_exit_price = Some(short_exit.actual_price),
           !.exit_spread_bps =
               IF long_exit.actual_price > 0 /\ short_exit.actual_price > 0
               THEN Some(DecRatioBps(long_exit.actual_price
                                     - short_exit.actual_price,
                                     short_exit.actual_price))
               ELSE None,
           !.gross_pnl = gross,
           !.fees = exit_fees,
           !.net_pnl = gross - exit_fees,
           !.is_open = FALSE]

\* the SpreadTrade as _exit_spread leaves it
exit_spread(t, timestamp, long_book, short_book) ==
    LET long_exit == calculate(long_book, "sell", t.size_in_coins)
        short_exit == calculate(short_book, "buy", t.size_in_coins)
        long_pnl == (long_exit.actual_price - t.long_entry_price)
                    * t.size_in_coins
        short_pnl == (t.short_entry_price - short_exit.actual_price)
                     * t.size_in_coins
        gross == long_pnl + short_pnl
        exit_fees == long_exit.total_cost
                     - long_exit.actual_price * long_exit.filled_quantity
                     + short_exit.total_cost
                     - short_exit.actual_price * short_exit.filled_quantity
        fees == t.fees + exit_fees
    IN  [t EXCEPT
           !.exit_time = Some(timestamp),
           !.long_exit_price = Some(long_exit.actual_price),
           !.short_exit_price = Some(short_exit.actual_price),
           !.exit_spread_bps =
               IF long_exit.actual_price > 0 /\ short_exit.actual_price > 0
               THEN Some(DecRatioBps(long_exit.actual_price
                                     - short_exit.actual_price,
                                     short_exit.actual_price))
               ELSE None,
           !.gross_pnl = gross,
           !.fees = fees,
           !.net_pnl = gross - fees,
           !.is_open = FALSE]

\* variant of should_exit with a strict comparison against the exit band
should_exit_strict_band(t, snap, long_book, short_book, cfg) ==
    LET converged ==
            IF best_bid(long_book) # None /\ best_ask(short_book) # None
            THEN DecBps(Dec(long_book.bids[1].price - short_book.asks[1].price),
                        short_book.asks[1].price)
                 > 0 - cfg.exit_spread_threshold_bps
            ELSE FALSE
        hold_time == snap.timestamp - t.entry_time
    IN  converged \/ hold_time > cfg.max_position_hold_time

\* variant of should_exit that times out once the hold time is reached
should_exit_at_hold_time(t, snap, long_book, short_book, cfg) ==
    LET converged ==
            IF best_bid(long_book) # None /\ best_ask(short_book) # None
            THEN DecBps(Dec(long_book.bids[1].price - short_book.asks[1].price),
                        short_book.asks[1].price)
                 >= 0 - cfg.exit_spread_threshold_bps
            ELSE FALSE
        hold_time == snap.timestamp - t.entry_time
    IN  converged \/ hold_time >= cfg.max_position_hold_time

\* should_exit as _check_exits computes it for one trade with both books
should_exit(t, snap, long_book, short_book, cfg) ==
    LET converged ==
            IF best_bid(long_book) # None /\ best_ask(short_book) # None
            THEN DecBps(Dec(long_book.bids[1].price - short_book.asks[1].price),
                        short_book.asks[1].price)
                 >= 0 - cfg.exit_spread_threshold_bps
            ELSE FALSE
        hold_time == snap.timestamp - t.entry_time
    IN  converged \/ hold_time > cfg.max_position_hold_time

RemoveId(open, id) == SelectSeq(open, LAMBDA t : t.trade_id # id)

\* the loop of _check_exits over list(self.open_positions.items())
RECURSIVE check_exits(_, _, _, _, _, _)
check_exits(items, k, pos, snap, store, cfg) ==
    IF k > Len(items) THEN pos
    ELSE
    LET t == items[k]
        long_book == store_get(store, t.long_exchange, t.canonical_symbol)
        short_book == store_get(store, t.short_exchange, t.canonical_symbol)
    IN  IF t.canonical_symbol # snap.symbol
        THEN check_exits(items, k + 1, pos, snap, store, cfg)
        ELSE IF long_book = None \/ short_book = None
        THEN check_exits(items, k + 1, pos, snap, store, cfg)
        ELSE IF should_exit(t, snap, Val(long_book), Val(short_book), cfg)
        THEN check_exits(items, k + 1,
                 [open |-> RemoveId(pos.open, t.trade_id),
                  closed |-> Append(pos.closed,
                                    exit_spread(t, snap.timestamp,
                                                Val(long_book),
                                                Val(short_book)))],
                 snap, store, cfg)
        ELSE check_exits(items, k + 1, pos, snap, store, cfg)

\* mark-to-market of the open trades, as _update_equity sums it
RECURSIVE unrealized_pnl(_, _, _)
unrealized_pnl(open, k, store) ==
    IF k > Len(open) THEN 0
    ELSE
    LET t == open[k]
        long_book == store_get(store, t.long_exchange, t.canonical_symbol)
        short_book == store_get(store, t.short_exchange, t.canonical_symbol)
        mtm == IF long_book # None /\ short_book # None
                  /\ best_bid(Val(long_book)) # None
                  /\ best_ask(Val(short_book)) # None
               THEN (Dec(Val(long_book).bids[1].price) - t.long_entry_price)
                        * t.size_in_coins
                    + (t.short_entry_price
                       - Dec(Val(short_book).asks[1].price))
                        * t.size_in_coins
               ELSE 0
    IN  mtm + unrealized_pnl(open, k + 1, store)

RECURSIVE SumField(_, _)
SumField(trades, f) ==
    IF trades = <<>> THEN 0 ELSE Head(trades)[f] + SumField(Tail(trades), f)

-----------------------------------------------------------------------------
(* Configurations and input snapshots of the exploration *)

Config(size, entry, exit, hold, maxpos, slip) ==
    [exchanges |-> Exchanges,
     symbols |-> Symbols,
     size_in_coins |-> size,
     entry_spread_threshold_bps |-> Dec(entry),
     exit_spread_threshold_bps |-> Dec(exit),
     max_position_hold_time |-> hold,
     max_concurrent_positions |-> maxpos,
     max_slippage_bps |-> Dec(slip)]

\* the defaults of BacktestConfig for the thresholds, with one position
\* allowed, and a second configuration with a wider exit band, a tighter
\* slippage limit and two positions allowed
Configs == {Config(2, 10, 2, 1, 1, 5), Config(2, 10, 10, 1, 2, 4)}

BLo == <<<<Level(999, 2)>>, <<Level(1000, 2)>>>>
BHi == <<<<Level(1001, 2)>>, <<Level(1002, 2)>>>>
BLoThin == <<<<Level(999, 1)>>, <<Level(1000, 1), Level(1001, 1)>>>>
BHiThin == <<<<Level(1001, 1)>>, <<Level(1002, 1)>>>>
BCrossed == <<<<Level(1002, 2)>>, <<Level(1000, 2)>>>>
BNoBids == <<<<>>, <<Level(1000, 2)>>>>

\* <<exchange, symbol, book>>: the books each venue publishes
Inputs ==
    ({"binance"} \X {"BTC"} \X {BLo, BLoThin, BCrossed, BNoBids})
    \cup ({"bybit"} \X {"BTC"} \X {BHi, BHiThin, BLo})
    \cup {<<"binance", "ETH", BLo>>, <<"bybit", "ETH", BHi>>}

\* gaps between the timestamps of consecutive snapshots
Gaps == {0, 1}

-----------------------------------------------------------------------------
(* Playback: orderbook.py, OrderbookPlayback *)

\* a row of orderbook_snapshots; well_formed says whether building the
\* OrderbookSnapshot from it succeeds.  The snapshot built from a row is
\* identified by the row's id.
Row(id, exchange, symbol, timestamp, well_formed) ==
    [id |-> id, exchange |-> exchange, symbol |-> symbol,
     timestamp |-> timestamp, well_formed |-> well_formed]

OrderbookPlayback(exchanges, symbols, start_time, end_time, batch_size) ==
    [exchanges |-> exchanges, symbols |-> symbols, start_time |-> start_time,
     end_time |-> end_time, batch_size |-> batch_size]

\* the orderings ORDER BY timestamp ASC may return the rows in: the query
\* names no second key, so rows of equal timestamp come in any order
OrderedByTimestamp(rows) ==
    {f \in [1..Cardinality(rows) -> rows] :
        /\ \A i, j \in 1..Cardinality(rows) : i # j => f[i] # f[j]
        /\ \A i, j \in 1..Cardinality(rows) :
              i < j => f[i].timestamp <= f[j].timestamp}

FirstN(seq, n) == SubSeq(seq, 1, Min(n, Len(seq)))

\* the rows the query of _load_batch selects for the cursor start_ts
batch_rows(rows, pb, start_ts) ==
    {r \in rows :
        /\ r.timestamp > start_ts
        /\ r.timestamp <= pb.end_time
        /\ r.exchange \in pb.exchanges
        /\ r.symbol \in pb.symbols}

\* the rows that parse, in the order fetched
RECURSIVE parse_rows(_)
parse_rows(rows) ==
    IF rows = <<>> THEN <<>>
    ELSE (IF Head(rows).well_formed THEN <<Head(rows)>> ELSE <<>>)
         \o parse_rows(Tail(rows))

\* the end of _load_batch for the rows fetched: the snapshots returned and
\* the values left in _last_timestamp and _exhausted
batch_result(fetched, last_ts) ==
    LET snapshots == parse_rows(fetched)
    IN  [snapshots |-> snapshots,
         last_timestamp |-> IF snapshots # <<>>
                            THEN Some(snapshots[Len(snapshots)].timestamp)
                            ELSE last_ts,
         exhausted |-> snapshots = <<>>]

\* variant of _load_batch that always queries from start_time
load_batch_from_start_time(rows, pb, last_ts) ==
    {batch_result(FirstN(fetched, pb.batch_size), last_ts) :
        fetched \in OrderedByTimestamp(batch_rows(rows, pb, pb.start_time))}

\* _load_batch: the results it can have, one for each order the query may
\* return the rows of equal timestamp in
load_batch(rows, pb, last_ts) ==
    LET start_ts == IF last_ts # None THEN Val(last_ts) ELSE pb.start_time
    IN  {batch_result(FirstN(fetched, pb.batch_size), last_ts) :
            fetched \in OrderedByTimestamp(batch_rows(rows, pb, start_ts))}

\* get_snapshot_count: the COUNT(*) of the rows in the range
get_snapshot_count(rows, pb) ==
    Cardinality({r \in rows :
        /\ r.timestamp >= pb.start_time
        /\ r.timestamp <= pb.end_time
        /\ r.exchange \in pb.exchanges
        /\ r.symbol \in pb.symbols})

TableRows == {table[i] : i \in 1..Len(table)}

\* __anext__ when _exhausted is set: StopAsyncIteration
AnextStop ==
    /\ stops' = stops + 1
    /\ UNCHANGED <<current_batch, batch_index, last_timestamp, exhausted,
                   yielded, loads>>

\* __anext__ when the current batch is used up: load the next one
AnextLoad ==
    \E b \in load_batch(TableRows, playback, last_timestamp) :
        /\ loads' = loads + 1
        /\ current_batch' = b.snapshots
        /\ last_timestamp' = b.last_timestamp
        /\ exhausted' = b.exhausted
        /\ IF b.snapshots = <<>>
           THEN /\ stops' = stops + 1
                /\ batch_index' = 0
                /\ yielded' = yielded
           ELSE /\ stops' = stops
                /\ batch_index' = 1
                /\ yielded' = Append(yielded, b.snapshots[1])

\* __anext__ inside a batch
AnextFromBatch ==
    /\ yielded' = Append(yielded, current_batch[batch_index + 1])
    /\ batch_index' = batch_index + 1
    /\ UNCHANGED <<current_batch, last_timestamp, exhausted, loads, stops>>

\* the snapshots the call of __anext__ returns: one or none
Returned == SubSeq(yielded', Len(yielded) + 1, Len(yielded'))

\* the calls of self._on_snapshot, if one is registered
notify(obs, snapshots) ==
    IF obs = None THEN None ELSE Some(Val(obs) \o snapshots)

\* variant of __anext__ that does not look at _exhausted
Anext_without_exhausted_flag ==
    /\ stops < MaxStops
    /\ IF batch_index >= Len(current_batch) THEN AnextLoad
       ELSE AnextFromBatch
    /\ observed' = notify(observed, Returned)
    /\ UNCHANGED <<table, playback>>
    /\ UNCHANGED outside_playback

\* __anext__: one request for the next snapshot
Anext ==
    /\ stops < MaxStops
    /\ IF exhausted THEN AnextStop
       ELSE IF batch_index >= Len(current_batch) THEN AnextLoad
       ELSE AnextFromBatch
    /\ observed' = notify(observed, Returned)
    /\ UNCHANGED <<table, playback>>
    /\ UNCHANGED outside_playback

\* on_snapshot: register the callback
OnSnapshot ==
    /\ observed = None
    /\ observed' = Some(<<>>)
    /\ UNCHANGED <<table, playback, current_batch, batch_index,
                   last_timestamp, exhausted, yielded, loads, stops>>
    /\ UNCHANGED outside_playback

\* one round of the async for of play: __anext__, which calls the callback
\* before it returns the snapshot, then the loop body, which calls it again;
\* StopAsyncIteration ends the loop
Play ==
    /\ stops = 0
    /\ IF exhausted THEN AnextStop
       ELSE IF batch_index >= Len(current_batch) THEN AnextLoad
       ELSE AnextFromBatch
    /\ observed' = notify(notify(observed, Returned), Returned)
    /\ UNCHANGED <<table, playback>>
    /\ UNCHANGED outside_playback

\* OrderbookPlayback.__init__ over the rows of the table
PlaybackInit(rows, pb) ==
    /\ table = rows
    /\ playback = pb
    /\ current_batch = <<>>
    /\ batch_index = 0
    /\ last_timestamp = None
    /\ exhausted = FALSE
    /\ yielded = <<>>
    /\ observed = None
    /\ loads = 0
    /\ stops = 0

-----------------------------------------------------------------------------
(* The simulated venue: simulator.py *)

\* A venue is the record of a SimulatedExchange: orders is _orders (an
\* order's id is its position, ids are handed out in order of creation),
\* open_orders is the ids of _open_orders in insertion order, and
\* fill_calls and order_update_calls are what the registered _on_fill and
\* _on_order_update callbacks have received.
SimulatedExchange(exchange_name) ==
    [exchange_name |-> exchange_name,
     fee_structure |-> get_fees(exchange_name),
     orders |-> <<>>,
     open_orders |-> <<>>,
     current_book |-> None,
     fill_calls |-> <<>>,
     order_update_calls |-> <<>>]

SimulatedOrder(id, exchange, symbol, side, order_type, price, quantity) ==
    [order_id |-> id, exchange |-> exchange, symbol |-> symbol, side |-> side,
     order_type |-> order_type, price |-> price, quantity |-> quantity,
     filled_quantity |-> 0, status |-> "open", fills |-> <<>>]

SimulatedFill(order_id, timestamp, price, quantity, fee, maker) ==
    [order_id |-> order_id, timestamp |-> timestamp, price |-> price,
     quantity |-> quantity, fee |-> fee, is_maker |-> maker]

remaining_quantity(order) == order.quantity - order.filled_quantity

\* SimulatedOrder.add_fill
add_fill(order, fill) ==
    LET filled == order.filled_quantity + fill.quantity
    IN  [order EXCEPT
            !.fills = Append(@, fill),
            !.filled_quantity = filled,
            !.status = IF filled >= order.quantity THEN "filled"
                       ELSE IF filled > 0 THEN "partially_filled"
                       ELSE @]

\* what the callback of an order update sees of the order
OrderUpdate(order) ==
    [order_id |-> order.order_id, status |-> order.status,
     filled_quantity |-> order.filled_quantity]

\* variant of the limit check that lets a buy walk through its limit
beyond_limit_sells_only(order, level) ==
    /\ order.order_type = "limit"
    /\ order.side = "sell"
    /\ level.price < Val(order.price)

\* the limit price stops the walk at this level
beyond_limit(order, level) ==
    /\ order.order_type = "limit"
    /\ IF order.side = "buy" THEN level.price > Val(order.price)
       ELSE level.price < Val(order.price)

\* variant of the fill quantity that takes the whole level
fill_qty_whole_level(remaining_qty, level) == level.quantity

fill_qty(remaining_qty, level) == Min(remaining_qty, level.quantity)

\* is_maker of a fill of the order against the book
is_maker(order, book) ==
    IF best_ask(book) # None /\ best_bid(book) # None
    THEN /\ order.order_type = "limit"
         /\ \/ /\ order.side = "buy"
               /\ Val(order.price) < Val(best_ask(book)).price
            \/ /\ order.side = "sell"
               /\ Val(order.price) > Val(best_bid(book)).price
    ELSE FALSE

\* the loop of _try_fill_order over the levels: the fills it collects
RECURSIVE collect_fills(_, _, _, _, _, _)
collect_fills(order, book, levels, i, remaining_qty, fees) ==
    IF i > Len(levels) \/ remaining_qty <= 0 THEN <<>>
    ELSE IF beyond_limit(order, levels[i]) THEN <<>>
    ELSE LET q == fill_qty(remaining_qty, levels[i])
             maker == is_maker(order, book)
             fee == q * levels[i].price * get_fee(fees, maker)
         IN  <<SimulatedFill(order.order_id, book.timestamp, levels[i].price,
                             q, fee, maker)>>
             \o collect_fills(order, book, levels, i + 1, remaining_qty - q,
                              fees)

\* the fills of one _try_fill_order, none on its early returns
fills_of(order, book, fees) ==
    IF order.status \in {"filled", "cancelled"} THEN <<>>
    ELSE IF remaining_quantity(order) <= 0 THEN <<>>
    ELSE LET levels == IF order.side = "buy" THEN book.asks ELSE book.bids
         IN  IF levels = <<>> THEN <<>>
             ELSE collect_fills(order, book, levels, 1,
                                remaining_quantity(order), fees)

RECURSIVE apply_fills(_, _, _)
apply_fills(order, fills, k) ==
    IF k > Len(fills) THEN order
    ELSE apply_fills(add_fill(order, fills[k]), fills, k + 1)

\* SimulatedExchange._try_fill_order on the order with this id
try_fill_order(ex, id, book) ==
    LET fills == fills_of(ex.orders[id], book, ex.fee_structure)
        order == apply_fills(ex.orders[id], fills, 1)
    IN  [ex EXCEPT
            !.orders[id] = order,
            !.fill_calls = @ \o fills,
            !.order_update_calls =
                IF fills # <<>> THEN Append(@, OrderUpdate(order)) ELSE @]

without(ids, id) == SelectSeq(ids, LAMBDA x : x # id)

\* the loop of update_orderbook over list(_open_orders.items())
RECURSIVE match_open_orders(_, _, _, _)
match_open_orders(ex, ids, k, book) ==
    IF k > Len(ids) THEN ex
    ELSE IF ex.orders[ids[k]].symbol # book.symbol
    THEN match_open_orders(ex, ids, k + 1, book)
    ELSE LET tried == try_fill_order(ex, ids[k], book)
             swept == IF tried.orders[ids[k]].status
                            \in {"filled", "cancelled"}
                      THEN [tried EXCEPT !.open_orders = without(@, ids[k])]
                      ELSE tried
         IN  match_open_orders(swept, ids, k + 1, book)

\* SimulatedExchange.update_orderbook
venue_update_orderbook(ex, book) ==
    IF book.exchange # ex.exchange_name THEN ex
    ELSE match_open_orders([ex EXCEPT !.current_book = Some(book)],
                           ex.open_orders, 1, book)

\* the outcome of a call: the venue after it, whether it raised, the id of
\* the order place_order returned, the flag cancel_order returned
Outcome(ex, raised, order_id, returned) ==
    [exchange |-> ex, raised |-> raised, order_id |-> order_id,
     returned |-> returned]

\* place_order after its check of the price
record_and_try(ex, req) ==
    LET id == Len(ex.orders) + 1
        order == SimulatedOrder(id, ex.exchange_name, req.symbol, req.side,
                                req.order_type, req.price, req.quantity)
        placed == [ex EXCEPT !.orders = Append(@, order),
                             !.open_orders = Append(@, id)]
        tried == IF /\ ex.current_book # None
                    /\ Val(ex.current_book).symbol = req.symbol
                 THEN try_fill_order(placed, id, Val(ex.current_book))
                 ELSE placed
    IN  [tried EXCEPT !.order_update_calls =
                          Append(@, OrderUpdate(tried.orders[id]))]

\* variant of place_order that records the order before it checks the price
place_order_checks_after_recording(ex, req) ==
    IF req.order_type = "limit" /\ req.price = None
    THEN Outcome([ex EXCEPT
                     !.orders = Append(@, SimulatedOrder(Len(ex.orders) + 1,
                                  ex.exchange_name, req.symbol, req.side,
                                  req.order_type, req.price, req.quantity)),
                     !.open_orders = Append(@, Len(ex.orders) + 1)],
                 TRUE, 0, FALSE)
    ELSE Outcome(record_and_try(ex, req), FALSE, Len(ex.orders) + 1, FALSE)

\* SimulatedExchange.place_order
place_order(ex, req) ==
    IF req.order_type = "limit" /\ req.price = None
    THEN Outcome(ex, TRUE, 0, FALSE)
    ELSE Outcome(record_and_try(ex, req), FALSE, Len(ex.orders) + 1, FALSE)

\* variant of cancel_order that cancels whatever the status is
cancel_order_any_status(ex, order_id) ==
    IF order_id \notin 1..Len(ex.orders) THEN Outcome(ex, FALSE, 0, FALSE)
    ELSE Outcome([ex EXCEPT
                     !.orders[order_id].status = "cancelled",
                     !.open_orders = without(@, order_id),
                     !.order_update_calls =
                         Append(@, OrderUpdate([ex.orders[order_id] EXCEPT
                                                  !.status = "cancelled"]))],
                 FALSE, 0, TRUE)

\* variant of cancel_order that leaves the order in the open set
cancel_order_stays_open(ex, order_id) ==
    IF order_id \notin 1..Len(ex.orders) THEN Outcome(ex, FALSE, 0, FALSE)
    ELSE IF ex.orders[order_id].status \in {"filled", "cancelled"}
    THEN Outcome(ex, FALSE, 0, FALSE)
    ELSE Outcome([ex EXCEPT
                     !.orders[order_id].status = "cancelled",
                     !.order_update_calls =
                         Append(@, OrderUpdate([ex.orders[order_id] EXCEPT
                                                  !.status = "cancelled"]))],
                 FALSE, 0, TRUE)

\* SimulatedExchange.cancel_order
cancel_order(ex, order_id) ==
    IF order_id \notin 1..Len(ex.orders) THEN Outcome(ex, FALSE, 0, FALSE)
    ELSE IF ex.orders[order_id].status \in {"filled", "cancelled"}
    THEN Outcome(ex, FALSE, 0, FALSE)
    ELSE Outcome([ex EXCEPT
                     !.orders[order_id].status = "cancelled",
                     !.open_orders = without(@, order_id),
                     !.order_update_calls =
                         Append(@, OrderUpdate([ex.orders[order_id] EXCEPT
                                                  !.status = "cancelled"]))],
                 FALSE, 0, TRUE)

\* the record of a call of the venue
Call(op, req, order_id, raised, returned) ==
    [op |-> op, request |-> req, order_id |-> order_id,
     raised |-> raised, returned |-> returned]

\* no venue on its own
ExchangeIdle ==
    /\ venue = SimulatedExchange("binance")
    /\ call = Call("none", None, 0, FALSE, FALSE)
    /\ book_updates = 0
    /\ books_received = [s \in Symbols |-> None]

-----------------------------------------------------------------------------
(* The driver: backtest.py, BacktestEngine.__init__ and run *)

EngineInit(cfg) ==
    /\ config = cfg
    /\ orderbook_store = EmptyStore
    /\ current_book = [ex \in config.exchanges |-> None]
    /\ open_positions = <<>>
    /\ closed_positions = <<>>
    /\ equity_curve = <<>>
    /\ emitted = <<>>
    /\ peak_equity = 0
    /\ current_equity = 0
    /\ next_trade_id = 1
    /\ snapshot = None
    /\ spread_info = None
    /\ trade = None
    /\ snapshot_count = 0
    /\ spread_sum = 0
    /\ opportunity_count = 0
    /\ slippage_sum = 0
    /\ pc = "start"
    /\ result = None
    /\ close_calls = 0

\* no call of the calculator on its own
CalculatorIdle ==
    /\ request = None
    /\ slippage = None

\* run: the engine and the playback it constructs; the snapshots the
\* playback hands to the loop are drawn from Inputs in ProcessSnapshot
Init ==
    \E cfg \in Configs :
        /\ EngineInit(cfg)
        /\ PlaybackInit(<<>>, OrderbookPlayback(cfg.exchanges, cfg.symbols,
                                                0, MaxSnapshots, 1000))
        /\ CalculatorIdle
        /\ ExchangeIdle
        /\ rerun = None
        /\ derived = None

\* SimulatedExchange.update_orderbook on a venue without orders
update_orderbook(books, snap) ==
    IF snap.exchange \in DOMAIN books
    THEN [books EXCEPT ![snap.exchange] = Some(snap)]
    ELSE books

\* variant of _update_equity whose peak follows the equity down
equity_sample_peak_not_kept(timestamp, open, closed, store, peak) ==
    LET equity == SumField(closed, "net_pnl") + unrealized_pnl(open, 1, store)
    IN  [timestamp |-> timestamp, equity |-> equity, peak |-> equity,
         drawdown |-> 0]

\* _update_equity: the sample appended for the timestamp
equity_sample(timestamp, open, closed, store, peak) ==
    LET equity == SumField(closed, "net_pnl") + unrealized_pnl(open, 1, store)
        new_peak == IF equity > peak THEN equity ELSE peak
    IN  [timestamp |-> timestamp, equity |-> equity, peak |-> new_peak,
         drawdown |-> new_peak - equity]

\* the assignments of one iteration of run, once its exits (pos), the
\* scanner's answer (info) and its entry (new_trade, open) are decided
\* what one iteration calls, in order, with every observer registered:
\* _on_trade_close in each _exit_spread, _on_trade_open in _enter_spread,
\* then _update_equity, then _on_snapshot
emissions(closed_count, new_trade) ==
    [k \in 1..closed_count |-> "on_trade_close"]
    \o (IF new_trade # None THEN <<"on_trade_open">> ELSE <<>>)
    \o <<"update_equity", "on_snapshot">>

IterationEffect(snap, store, pos, info, new_trade, open) ==
    \E sample \in {equity_sample(snap.timestamp, open, pos.closed, store,
                                peak_equity)} :
        /\ snapshot_count' = snapshot_count + 1
        /\ orderbook_store' = store
        /\ current_book' = update_orderbook(current_book, snap)
        /\ closed_positions' = pos.closed
        /\ open_positions' = open
        /\ spread_info' = info
        /\ spread_sum' = spread_sum
                         + (IF info # None THEN Val(info).spread_bps ELSE 0)
        /\ opportunity_count' = opportunity_count
                                + (IF info # None THEN 1 ELSE 0)
        /\ trade' = new_trade
        /\ next_trade_id' = IF new_trade # None THEN next_trade_id + 1
                            ELSE next_trade_id
        /\ slippage_sum' = slippage_sum
                           + (IF new_trade # None
                              THEN Val(info).total_slippage_bps ELSE 0)
        /\ current_equity' = sample.equity
        /\ peak_equity' = sample.peak
        /\ equity_curve' = Append(equity_curve, sample)
        /\ emitted' = emissions(Len(pos.closed) - Len(closed_positions),
                              new_trade)
        /\ snapshot' = Some(snap)

\* variant of the iteration that attempts the entry before the exit checks
RunIteration_entry_before_exits(snap) ==
    \E store \in {store_update(orderbook_store, snap)} :
    \E info \in {find_spread_opportunity(store, snap, config)} :
    \E new_trade \in {IF info # None
                         /\ should_enter(Val(info), open_positions, config)
                      THEN Some(enter_spread(Val(info), snap.timestamp,
                                             next_trade_id, config))
                      ELSE None} :
    \E pos \in {check_exits(open_positions \o new_trade, 1,
                            [open |-> open_positions \o new_trade,
                             closed |-> closed_positions],
                            snap, store, config)} :
        IterationEffect(snap, store, pos, info, new_trade, pos.open)

\* variant of the iteration that gates the entry on the open set as it was
\* before the exit checks
RunIteration_gate_before_exits(snap) ==
    \E store \in {store_update(orderbook_store, snap)} :
    \E pos \in {check_exits(open_positions, 1,
                            [open |-> open_positions,
                             closed |-> closed_positions],
                            snap, store, config)} :
    \E info \in {find_spread_opportunity(store, snap, config)} :
    \E new_trade \in {IF info # None
                         /\ should_enter(Val(info), open_positions, config)
                      THEN Some(enter_spread(Val(info), snap.timestamp,
                                             next_trade_id, config))
                      ELSE None} :
        IterationEffect(snap, store, pos, info, new_trade,
                        pos.open \o new_trade)

\* one iteration of the loop of run over the snapshot snap: store update,
\* venue update, exit checks, scanner, entry gating and entry, equity update
RunIteration(snap) ==
    \E store \in {store_update(orderbook_store, snap)} :
    \E pos \in {check_exits(open_positions, 1,
                            [open |-> open_positions,
                             closed |-> closed_positions],
                            snap, store, config)} :
    \E info \in {find_spread_opportunity(store, snap, config)} :
    \E new_trade \in {IF info # None
                         /\ should_enter(Val(info), pos.open, config)
                      THEN Some(enter_spread(Val(info), snap.timestamp,
                                             next_trade_id, config))
                      ELSE None} :
        IterationEffect(snap, store, pos, info, new_trade,
                        pos.open \o new_trade)

\* await playback.connect() returns
Connect ==
    /\ pc = "start"
    /\ pc' = "running"
    /\ UNCHANGED <<config, orderbook_store, current_book, open_positions,
                   closed_positions, equity_curve, emitted, peak_equity,
                   current_equity, next_trade_id, snapshot, spread_info,
                   trade, snapshot_count, spread_sum, opportunity_count, slippage_sum, result,
                   close_calls>>
    /\ UNCHANGED outside_engine

\* await playback.connect() raises: it is outside the try statement, the
\* exception leaves run
ConnectFails ==
    /\ pc = "start"
    /\ pc' = "connect_failed"
    /\ UNCHANGED <<config, orderbook_store, current_book, open_positions,
                   closed_positions, equity_curve, emitted, peak_equity,
                   current_equity, next_trade_id, snapshot, spread_info,
                   trade, snapshot_count, spread_sum, opportunity_count, slippage_sum, result,
                   close_calls>>
    /\ UNCHANGED outside_engine

\* variant of the loop's exit by an exception with close() only on the
\* normal path
Abort_without_finally(how) ==
    /\ pc = "running"
    /\ pc' = how
    /\ UNCHANGED <<config, orderbook_store, current_book, open_positions,
                   closed_positions, equity_curve, emitted, peak_equity,
                   current_equity, next_trade_id, snapshot, spread_info,
                   trade, snapshot_count, spread_sum, opportunity_count, slippage_sum, result,
                   close_calls>>
    /\ UNCHANGED outside_engine

\* the try statement is left by an exception: the finally clause calls
\* close() and the exception leaves run, which returns no result
Abort(how) ==
    /\ pc = "running"
    /\ pc' = how
    /\ close_calls' = close_calls + 1
    /\ UNCHANGED <<config, orderbook_store, current_book, open_positions,
                   closed_positions, equity_curve, emitted, peak_equity,
                   current_equity, next_trade_id, snapshot, spread_info,
                   trade, snapshot_count, spread_sum, opportunity_count, slippage_sum, result>>
    /\ UNCHANGED outside_engine

\* an exception raised while loading or processing a snapshot
RaiseInLoop == Abort("raised")

\* the task running run is cancelled while it waits for a snapshot
Cancel == Abort("cancelled")

\* str(uuid4()) in _enter_spread of a second run over the same snapshots
\* with the same configuration, which enters a trade where this run
\* does.  A trade id of this run is the position of its uuid4 call among
\* the calls of the run; the second run's call at position k returns the
\* string this run got at k, written k, or another string, written -k.
second_run_uuid4 ==
    IF rerun = None \/ trade' = None THEN rerun' = rerun
    ELSE \E id \in {next_trade_id, 0 - next_trade_id} :
            rerun' = Some(Append(Val(rerun), id))

\* the playback yields the next snapshot, at or after the previous one
ProcessSnapshot ==
    /\ pc = "running"
    /\ snapshot_count < MaxSnapshots
    /\ \E in \in Inputs, gap \in Gaps :
          /\ snapshot = None => gap = 0
          /\ RunIteration(OrderbookSnapshot(in[1], in[2],
                 (IF snapshot = None THEN 0 ELSE Val(snapshot).timestamp) + gap,
                 in[3][1], in[3][2]))
    /\ second_run_uuid4
    /\ UNCHANGED <<config, pc, result, close_calls>>
    /\ UNCHANGED <<outside_run, derived>>

MaxOf(s) == IF s = {} THEN 0 ELSE CHOOSE x \in s : \A y \in s : y <= x

\* the playback is exhausted: the finally clause calls close(), then the
\* statements of run after the try statement
Finalize ==
    /\ pc = "running"
    /\ close_calls' = close_calls + 1
    /\ LET trades == closed_positions \o open_positions
           total == Len(trades)
       IN  result' = Some(
             [trades |-> trades,
              total_trades |-> total,
              winning_trades |->
                  Cardinality({k \in 1..total : trades[k].net_pnl > 0}),
              losing_trades |->
                  Cardinality({k \in 1..total : trades[k].net_pnl < 0}),
              gross_pnl |-> SumField(trades, "gross_pnl"),
              total_fees |-> SumField(trades, "fees"),
              net_pnl |-> SumField(trades, "net_pnl"),
              total_snapshots_processed |-> snapshot_count,
              avg_spread_bps |->
                  IF snapshot_count > 0
                  THEN DecDiv(spread_sum, snapshot_count) ELSE 0,
              avg_slippage_bps |->
                  IF total > 0 THEN DecDiv(slippage_sum, total) ELSE 0,
              max_drawdown |->
                  IF Len(equity_curve) < 2 THEN 0
                  ELSE MaxOf({equity_curve[k].drawdown :
                                 k \in 1..Len(equity_curve)} \cup {0})])
    /\ pc' = "done"
    /\ UNCHANGED <<config, orderbook_store, current_book, open_positions,
                   closed_positions, equity_curve, emitted, peak_equity,
                   current_equity, next_trade_id, snapshot, spread_info,
                   trade, snapshot_count, spread_sum, opportunity_count, slippage_sum>>
    /\ UNCHANGED outside_engine

Next ==
    \/ Connect
    \/ ConnectFails
    \/ ProcessSnapshot
    \/ RaiseInLoop
    \/ Cancel
    \/ Finalize

Spec == Init /\ [][Next]_vars

\* run() beside a second run over the same snapshots
InitRerun ==
    /\ EngineInit(CHOOSE cfg \in Configs : cfg.max_concurrent_positions = 2)
    /\ PlaybackInit(<<>>, OrderbookPlayback(config.exchanges, config.symbols,
                                            0, MaxSnapshots, 1000))
    /\ CalculatorIdle
    /\ ExchangeIdle
    /\ rerun = Some(<<>>)
    /\ derived = None

SpecRerun == InitRerun /\ [][Next]_vars

\* run() of an engine constructed with a negative size_in_coins
InitNegativeSize ==
    /\ EngineInit(Config(-1, 10, 2, 1, 1, 5))
    /\ PlaybackInit(<<>>, OrderbookPlayback(config.exchanges, config.symbols,
                                            0, MaxSnapshots, 1000))
    /\ CalculatorIdle
    /\ ExchangeIdle
    /\ rerun = None
    /\ derived = None

SpecNegativeSize == InitNegativeSize /\ [][Next]_vars

-----------------------------------------------------------------------------
(* run() over the two ticks of a single clean trade *)

\* size 1, entry threshold 10 bps, the other fields at the defaults of
\* BacktestConfig; a timestamp counts minutes
ScenarioConfig == Config(1, 10, 2, 1440, 5, 5)

\* the side a tick names for a venue, and the other side of that book:
\* empty, or a level that keeps the book uncrossed
TickBooks(tick, exchange) ==
    IF tick = 1 /\ exchange = "binance"
    THEN {<<bids, <<Level(100, 5)>>>> : bids \in {<<>>, <<Level(99, 5)>>}}
    ELSE IF tick = 1
    THEN {<<<<Level(102, 5)>>, asks>> : asks \in {<<>>, <<Level(103, 5)>>}}
    ELSE IF exchange = "binance"
    THEN {<<<<Level(101, 5)>>, asks>> : asks \in {<<>>, <<Level(102, 5)>>}}
    ELSE {<<bids, <<Level(101, 5)>>>> : bids \in {<<>>, <<Level(100, 5)>>}}

InitScenario ==
    /\ EngineInit(ScenarioConfig)
    /\ PlaybackInit(<<>>, OrderbookPlayback(config.exchanges, config.symbols,
                                            0, 1, 1000))
    /\ CalculatorIdle
    /\ ExchangeIdle
    /\ rerun = None
    /\ derived = None

\* the playback yields the next snapshot of the scenario: two snapshots a
\* tick, one of each venue in either order, the second tick a minute later
ScenarioSnapshot ==
    /\ pc = "running"
    /\ snapshot_count < 4
    /\ \E exchange \in Exchanges :
          /\ snapshot_count \in {1, 3} => exchange # Val(snapshot).exchange
          /\ \E book \in TickBooks(snapshot_count \div 2 + 1, exchange) :
                RunIteration(OrderbookSnapshot(exchange, "BTC",
                                               snapshot_count \div 2,
                                               book[1], book[2]))
    /\ second_run_uuid4
    /\ UNCHANGED <<config, pc, result, close_calls>>
    /\ UNCHANGED <<outside_run, derived>>

NextScenario == Connect \/ ScenarioSnapshot \/ Finalize

SpecScenario == InitScenario /\ [][NextScenario]_vars

-----------------------------------------------------------------------------
(* The playback alone, over the tables of up to MaxRows rows *)

Times == 0..4

\* rows of the selected venue and symbol at every time, well formed or not,
\* and a row of another venue and a row of another symbol
RowKinds ==
    {<<"binance", "BTC", ts, wf>> : ts \in Times, wf \in BOOLEAN}
    \cup {<<"okx", "BTC", 2, TRUE>>, <<"binance", "SOL", 2, TRUE>>}

BatchSizes == 1..MaxRows

InitPlayback ==
    /\ EngineInit(CHOOSE cfg \in Configs : cfg.max_concurrent_positions = 1)
    /\ \E n \in 0..MaxRows, batch_size \in BatchSizes :
       \E kinds \in [1..n -> RowKinds] :
          /\ \A i \in 1..(n - 1) : kinds[i][3] <= kinds[i + 1][3]
          /\ PlaybackInit([i \in 1..n |->
                              Row(i, kinds[i][1], kinds[i][2], kinds[i][3],
                                  kinds[i][4])],
                          OrderbookPlayback({"binance"}, {"BTC"}, 1, 3,
                                            batch_size))
    /\ CalculatorIdle
    /\ ExchangeIdle
    /\ rerun = None
    /\ derived = None

NextPlayback == Anext

SpecPlayback == InitPlayback /\ [][NextPlayback]_vars

\* play() with or without a registered callback
NextPlay == OnSnapshot \/ Play

SpecPlay == InitPlayback /\ [][NextPlay]_vars

-----------------------------------------------------------------------------
(* The scanner alone, over the stores of three venues *)

Venues == {"binance", "bybit", "okx"}

BMid == <<<<Level(1000, 2)>>, <<Level(1001, 2)>>>>
BTop == <<<<Level(1003, 1), Level(1002, 1)>>, <<Level(1004, 2)>>>>
BNoAsks == <<<<Level(1001, 2)>>, <<>>>>
BEmpty == <<<<>>, <<>>>>

\* what a venue has stored: a BTC book, only an ETH book, or nothing
VenueBooks ==
    {<<"BTC", b>> : b \in {BLo, BMid, BHi, BTop, BLoThin, BCrossed, BNoBids,
                           BNoAsks, BEmpty}}
    \cup {<<"ETH", BLo>>, <<"none", BEmpty>>}

\* the store after the updates of the list, in order
RECURSIVE StoreAfter(_, _)
StoreAfter(store, updates) ==
    IF updates = <<>> THEN store
    ELSE StoreAfter(
             IF Head(updates)[2] = "none" THEN store
             ELSE store_update(store,
                      OrderbookSnapshot(Head(updates)[1], Head(updates)[2],
                                        0, Head(updates)[3][1],
                                        Head(updates)[3][2])),
             Tail(updates))

ScannerConfig ==
    [Config(2, 10, 2, 1, 1, 5) EXCEPT !.exchanges = Venues]

\* the engine inside its loop with some store, before the scanner runs
InitScanner ==
    /\ \E v1, v2, v3 \in Venues :
       \E k1, k2, k3 \in VenueBooks :
          /\ {v1, v2, v3} = Venues
          /\ orderbook_store
                = StoreAfter(EmptyStore, <<<<v1, k1[1], k1[2]>>,
                                          <<v2, k2[1], k2[2]>>,
                                          <<v3, k3[1], k3[2]>>>>)
    /\ config = ScannerConfig
    /\ current_book = [ex \in Venues |-> None]
    /\ open_positions = <<>>
    /\ closed_positions = <<>>
    /\ equity_curve = <<>>
    /\ emitted = <<>>
    /\ peak_equity = 0
    /\ current_equity = 0
    /\ next_trade_id = 1
    /\ snapshot = None
    /\ spread_info = None
    /\ trade = None
    /\ snapshot_count = 0
    /\ spread_sum = 0
    /\ opportunity_count = 0
    /\ slippage_sum = 0
    /\ pc = "running"
    /\ result = None
    /\ close_calls = 0
    /\ PlaybackInit(<<>>, OrderbookPlayback(Venues, Symbols, 0, 0, 1000))
    /\ CalculatorIdle
    /\ ExchangeIdle
    /\ rerun = None
    /\ derived = None

\* _find_spread_opportunity for a snapshot of BTC
Scan ==
    /\ snapshot = None
    /\ \E snap \in {OrderbookSnapshot("binance", "BTC", 0, <<>>, <<>>)} :
          /\ snapshot' = Some(snap)
          /\ spread_info' = find_spread_opportunity(orderbook_store, snap,
                                                    config)
    /\ UNCHANGED <<config, orderbook_store, current_book, open_positions,
                   closed_positions, equity_curve, emitted, peak_equity,
                   current_equity, next_trade_id, trade, snapshot_count,
                   spread_sum, opportunity_count, slippage_sum, pc, result, close_calls>>
    /\ UNCHANGED outside_engine

NextScanner == Scan

SpecScanner == InitScanner /\ [][NextScanner]_vars

-----------------------------------------------------------------------------
(* The calculator alone, over the sides of up to MaxLevels levels *)

\* levels in any order, some without quantity
LevelKinds == {Level(p, q) : p \in {999, 1000, 1002}, q \in {0, 1, 2}}

Sides == UNION {[1..n -> LevelKinds] : n \in 0..MaxLevels}

Sizes == {0, 1, 2, 3, 5}

\* binance has an entry in EXCHANGE_FEES, kraken has none
Requests ==
    {[orderbook |-> OrderbookSnapshot(ex, "BTC", 0,
                                      IF side = "sell" THEN levels ELSE <<>>,
                                      IF side = "buy" THEN levels ELSE <<>>),
      side |-> side, size_in_coins |-> size] :
        ex \in {"binance", "kraken"}, levels \in Sides,
        side \in {"buy", "sell"}, size \in Sizes}

InitCalculator ==
    /\ EngineInit(CHOOSE cfg \in Configs : cfg.max_concurrent_positions = 1)
    /\ PlaybackInit(<<>>, OrderbookPlayback({}, {}, 0, 0, 1000))
    /\ request \in Requests
    /\ slippage = None
    /\ ExchangeIdle
    /\ rerun = None
    /\ derived = None

\* one call of SlippageCalculator.calculate with the default flags
Calculate ==
    /\ slippage = None
    /\ slippage' = Some(calculate(request.orderbook, request.side,
                                  request.size_in_coins))
    /\ UNCHANGED request
    /\ UNCHANGED outside_calculator

NextCalculator == Calculate

SpecCalculator == InitCalculator /\ [][NextCalculator]_vars

-----------------------------------------------------------------------------
(* One venue alone, under any calls of its three operations *)

\* BTC orders that rest in or ignore the spread 998/1000, and a limit order
\* without a price
OrderRequests ==
    {[symbol |-> r[1], side |-> r[2], order_type |-> r[3], quantity |-> r[4],
      price |-> r[5]] :
        r \in {<<"BTC", "buy", "limit", 2, Some(999)>>,
               <<"BTC", "sell", "limit", 2, Some(1001)>>,
               <<"BTC", "buy", "market", 3, None>>,
               <<"BTC", "buy", "limit", 1, None>>}}

\* books of the venue, two-sided and without asks, of another symbol and
\* of another venue
ExchangeBooks ==
    {<<"binance", "BTC", <<Level(998, 1)>>,
                         <<Level(1000, 1), Level(1001, 1)>>>>,
     <<"binance", "BTC", <<Level(997, 1)>>,
                         <<Level(999, 1), Level(1000, 2)>>>>,
     <<"binance", "BTC", <<Level(1001, 3), Level(1000, 2)>>, <<>>>>,
     <<"binance", "ETH", <<Level(998, 1)>>, <<Level(1000, 2)>>>>,
     <<"bybit", "BTC", <<Level(997, 1)>>, <<Level(999, 1)>>>>}

InitExchange ==
    /\ EngineInit(CHOOSE cfg \in Configs : cfg.max_concurrent_positions = 1)
    /\ PlaybackInit(<<>>, OrderbookPlayback({}, {}, 0, 0, 1000))
    /\ CalculatorIdle
    /\ ExchangeIdle
    /\ rerun = None
    /\ derived = None

PlaceOrder ==
    /\ Len(venue.orders) < MaxOrders
    /\ \E req \in OrderRequests :
       \E out \in {place_order(venue, req)} :
          /\ venue' = out.exchange
          /\ call' = Call("place_order", Some(req), out.order_id, out.raised,
                          out.returned)
    /\ UNCHANGED <<book_updates, books_received>>
    /\ UNCHANGED outside_exchange

UpdateOrderbook ==
    /\ book_updates < MaxBookUpdates
    /\ \E b \in ExchangeBooks :
       \E book \in {OrderbookSnapshot(b[1], b[2], book_updates + 1,
                                      b[3], b[4])} :
          /\ venue' = venue_update_orderbook(venue, book)
          /\ call' = Call("update_orderbook", None, 0, FALSE, FALSE)
          /\ books_received' =
                IF book.exchange # venue.exchange_name THEN books_received
                ELSE [books_received EXCEPT ![book.symbol] = Some(book)]
    /\ book_updates' = book_updates + 1
    /\ UNCHANGED outside_exchange

\* any id, of an order or of none
CancelOrder ==
    /\ \E id \in 1..MaxOrders :
       \E out \in {cancel_order(venue, id)} :
          /\ venue' = out.exchange
          /\ call' = Call("cancel_order", None, id, out.raised, out.returned)
    /\ UNCHANGED <<book_updates, books_received>>
    /\ UNCHANGED outside_exchange

NextExchange == PlaceOrder \/ UpdateOrderbook \/ CancelOrder

SpecExchange == InitExchange /\ [][NextExchange]_vars

-----------------------------------------------------------------------------
(* The derived values of a book: orderbook.py, OrderbookSnapshot *)

BookPrices == {999, 1000, 1001}

\* sides of at most MaxBookDepth levels, best level first
BidSides ==
    {s \in UNION {[1..n -> [price : BookPrices, quantity : {1, 2}]] :
                     n \in 0..MaxBookDepth} :
        /\ \A k \in 1..(Len(s) - 1) : s[k].price > s[k + 1].price
        /\ \A k \in 2..Len(s) : s[k].quantity = 1}

AskSides ==
    {s \in UNION {[1..n -> [price : BookPrices, quantity : {1, 2}]] :
                     n \in 0..MaxBookDepth} :
        /\ \A k \in 1..(Len(s) - 1) : s[k].price < s[k + 1].price
        /\ \A k \in 2..Len(s) : s[k].quantity = 1}

InitBook ==
    /\ EngineInit(CHOOSE cfg \in Configs : cfg.max_concurrent_positions = 1)
    /\ PlaybackInit(<<>>, OrderbookPlayback({}, {}, 0, 0, 1000))
    /\ CalculatorIdle
    /\ ExchangeIdle
    /\ rerun = None
    /\ derived = None

\* a book is constructed and its properties are read
ReadBook ==
    /\ \E bids \in BidSides, asks \in AskSides :
       \E book \in {OrderbookSnapshot("binance", "BTC", 0, bids, asks)} :
          /\ snapshot' = Some(book)
          /\ derived' = Some([best_bid |-> best_bid(book),
                              best_ask |-> best_ask(book),
                              mid_price |-> mid_price(book),
                              spread |-> spread(book),
                              spread_bps |-> spread_bps(book)])
    /\ UNCHANGED <<config, orderbook_store, current_book, open_positions,
                   closed_positions, equity_curve, emitted, peak_equity,
                   current_equity, next_trade_id, spread_info, trade,
                   snapshot_count, spread_sum, opportunity_count,
                   slippage_sum, pc, result, close_calls>>
    /\ UNCHANGED <<outside_run, rerun>>

NextBook == ReadBook

SpecBook == InitBook /\ [][NextBook]_vars

-----------------------------------------------------------------------------
(* Vocabulary of the properties *)

Range(seq) == {seq[k] : k \in 1..Len(seq)}
Ids(trades) == {trades[k].trade_id : k \in 1..Len(trades)}

\* the step processes one snapshot
Processes == snapshot_count' = snapshot_count + 1

\* the trades the step appends to the closed list
ClosedByStep ==
    {closed_positions'[k] :
        k \in (Len(closed_positions) + 1)..Len(closed_positions')}

\* what a market order of the given size takes from level i of a side
TakenAt(levels, i, size) ==
    LET before == SumSeq([j \in 1..(i - 1) |-> levels[j].quantity])
    IN  IF before >= size THEN 0 ELSE Min(levels[i].quantity, size - before)

FilledOf(levels, size) ==
    SumSeq([i \in 1..Len(levels) |-> TakenAt(levels, i, size)])

ValueOf(levels, size) ==
    SumSeq([i \in 1..Len(levels) |->
               levels[i].price * TakenAt(levels, i, size)])

\* volume-weighted price of what the order takes, 0 when it takes nothing
VWAP(levels, size) ==
    IF FilledOf(levels, size) = 0 THEN 0
    ELSE RoundDiv(Dec(ValueOf(levels, size)), FilledOf(levels, size))

\* taker fee on what the order takes
TakerFee(exchange, levels, size) ==
    (Dec(ValueOf(levels, size)) * get_fees(exchange).taker_fee_bps) \div 10000

LongBook(t, store) == BookOf(store, t.long_exchange, t.canonical_symbol)
ShortBook(t, store) == BookOf(store, t.short_exchange, t.canonical_symbol)

\* closing_spread_bps >= -exit_spread_threshold_bps, compared exactly
InExitBand(t, store, cfg) ==
    /\ LongBook(t, store).bids # <<>>
    /\ ShortBook(t, store).asks # <<>>
    /\ (LongBook(t, store).bids[1].price - ShortBook(t, store).asks[1].price)
           * 10000 * Scale
       >= (0 - cfg.exit_spread_threshold_bps)
              * ShortBook(t, store).asks[1].price

HeldTooLong(t, timestamp, cfg) ==
    timestamp - t.entry_time > cfg.max_position_hold_time

\* conditions 2 to 4 of entry gating, on the scanner's candidate
CandidateAcceptable(info, cfg) ==
    /\ info.spread_bps >= cfg.entry_spread_threshold_bps
    /\ info.long_slippage.slippage_bps + info.short_slippage.slippage_bps
          <= cfg.max_slippage_bps
    /\ info.can_execute

\* entry gating against a set of open trades
EntryGating(info, others, cfg) ==
    /\ Len(others) < cfg.max_concurrent_positions
    /\ CandidateAcceptable(info, cfg)
    /\ \A o \in Range(others) : o.canonical_symbol # info.symbol

-----------------------------------------------------------------------------
(* Properties of the position engine *)

\* C1: after every processed snapshot the number of open trades is at most
\* max_concurrent_positions, and nothing is queued: a trade that becomes
\* open in a step is on the symbol of that step's snapshot, carries its
\* timestamp, and the scanner's candidate of that very snapshot passed
\* entry gating against the other open trades.
C1_CapHeldNothingQueued ==
    [][Processes =>
        /\ Len(open_positions') <= config.max_concurrent_positions
        /\ \A t \in Range(open_positions') :
              t.trade_id \notin Ids(open_positions) =>
                 /\ spread_info' # None
                 /\ t.canonical_symbol = Val(snapshot').symbol
                 /\ t.canonical_symbol = Val(spread_info').symbol
                 /\ t.entry_time = Val(snapshot').timestamp
                 /\ EntryGating(Val(spread_info'),
                                SelectSeq(open_positions',
                                          LAMBDA o : o.trade_id # t.trade_id),
                                config)]_vars

\* an acceptable candidate on a free symbol was skipped because the cap
\* was reached
WitC1_SkippedAtCap ==
    /\ spread_info # None
    /\ trade = None
    /\ CandidateAcceptable(Val(spread_info), config)
    /\ Len(open_positions) = config.max_concurrent_positions
    /\ \A o \in Range(open_positions) :
          o.canonical_symbol # Val(spread_info).symbol

\* C2: no two open trades share a canonical symbol.
C2_OneOpenTradePerSymbol ==
    \A i, j \in 1..Len(open_positions) :
        i # j => open_positions[i].canonical_symbol
                 # open_positions[j].canonical_symbol

\* below the cap, an acceptable candidate was refused because a trade on
\* its symbol is open
WitC2_RefusedOnOpenSymbol ==
    /\ spread_info # None
    /\ trade = None
    /\ CandidateAcceptable(Val(spread_info), config)
    /\ Len(open_positions) < config.max_concurrent_positions
    /\ \E o \in Range(open_positions) :
          o.canonical_symbol = Val(spread_info).symbol

\* C3: every trade was entered on a candidate whose spread reached the
\* entry threshold, whose two slippages together stayed within
\* max_slippage_bps and whose two legs filled the whole size; a candidate
\* with a leg short of liquidity enters no trade.
C3_EnteredTradesPassedGating ==
    /\ \A t \in Range(open_positions) \cup Range(closed_positions) :
          t.entry_spread_bps >= config.entry_spread_threshold_bps
    /\ trade # None =>
          /\ spread_info # None
          /\ Val(trade).entry_spread_bps = Val(spread_info).spread_bps
          /\ Val(spread_info).spread_bps >= config.entry_spread_threshold_bps
          /\ Val(spread_info).long_slippage.slippage_bps
                + Val(spread_info).short_slippage.slippage_bps
             <= config.max_slippage_bps
          /\ ~Val(spread_info).long_slippage.insufficient_liquidity
          /\ ~Val(spread_info).short_slippage.insufficient_liquidity
          /\ Val(spread_info).long_slippage.filled_quantity
                = config.size_in_coins
          /\ Val(spread_info).short_slippage.filled_quantity
                = config.size_in_coins
    /\ (/\ spread_info # None
        /\ \/ FilledOf(Val(spread_info).long_book.asks, config.size_in_coins)
                 < config.size_in_coins
           \/ FilledOf(Val(spread_info).short_book.bids, config.size_in_coins)
                 < config.size_in_coins)
       => trade = None

\* a trade entered with the spread exactly at the threshold and the total
\* slippage exactly at the limit
WitC3_EnteredAtBothLimits ==
    /\ trade # None
    /\ Val(trade).entry_spread_bps = config.entry_spread_threshold_bps
    /\ Val(spread_info).total_slippage_bps = config.max_slippage_bps
    /\ Val(spread_info).total_slippage_bps > 0

\* C4: a trade entered while processing a snapshot is open when the
\* processing ends; every trade a step closes was open before the step.
C4_NotOpenedAndClosedInOneStep ==
    [][Processes =>
        /\ \A c \in ClosedByStep : c.trade_id \in Ids(open_positions)
        /\ trade' # None =>
              /\ Val(trade').trade_id
                    \notin Ids(open_positions) \cup Ids(closed_positions)
              /\ Val(trade') \in Range(open_positions')
              /\ Val(trade').trade_id \notin Ids(closed_positions')]_vars

\* a trade was entered on books that already satisfy its exit condition
WitC4_EnteredWhileExitConditionHolds ==
    /\ trade # None
    /\ InExitBand(Val(trade), orderbook_store, config)

\* C5: entry gating sees the open set as the exit checks of the same
\* snapshot left it: an acceptable candidate is entered exactly when the
\* trades that survive the exit checks are fewer than the cap and none of
\* them is on the candidate's symbol.
C5_GatingAfterExitChecks ==
    [][Processes =>
        LET survivors ==
                SelectSeq(open_positions,
                          LAMBDA o : o.trade_id \notin Ids(closed_positions'))
        IN  (spread_info' # None
             /\ CandidateAcceptable(Val(spread_info'), config))
            => (trade' # None
                <=> /\ Len(survivors) < config.max_concurrent_positions
                    /\ \A o \in Range(survivors) :
                          o.canonical_symbol # Val(spread_info').symbol)]_vars

\* with a cap of one, the third snapshot closed the trade of the second and
\* entered a new trade on the same symbol
WitC5_ClosedAndReenteredOnOneSnapshot ==
    /\ config.max_concurrent_positions = 1
    /\ snapshot_count = 3
    /\ trade # None
    /\ Len(closed_positions) = 1
    /\ closed_positions[1].canonical_symbol = Val(trade).canonical_symbol
    /\ closed_positions[1].exit_time = Some(Val(trade).entry_time)
    /\ Val(trade).trade_id # closed_positions[1].trade_id

\* C6: on a snapshot for symbol S, a trade on S that was open before the
\* snapshot is closed exactly when its closing spread, from the books
\* stored after the update, is at least -exit_spread_threshold_bps or the
\* snapshot is later than entry_time + max_position_hold_time; otherwise it
\* stays open unchanged.
C6_ExitExactlyWhenDue ==
    [][Processes =>
        \A t \in Range(open_positions) :
            t.canonical_symbol = Val(snapshot').symbol =>
                LET due == \/ InExitBand(t, orderbook_store', config)
                           \/ HeldTooLong(t, Val(snapshot').timestamp, config)
                IN  /\ due <=> t.trade_id \in Ids(closed_positions')
                    /\ due <=> t.trade_id \notin Ids(open_positions')
                    /\ ~due => t \in Range(open_positions')]_vars

\* a trade was closed within its hold time with the closing spread exactly
\* at the edge of the exit band
WitC6_ClosedAtEdgeOfBand ==
    \E c \in Range(closed_positions) :
        /\ Val(c.exit_time) - c.entry_time <= config.max_position_hold_time
        /\ c.exit_spread_bps = Some(0 - config.exit_spread_threshold_bps)

\* C7 as stated: once a snapshot later than entry_time +
\* max_position_hold_time has been processed, the trade is no longer open.
C7_ClosedAtFirstLateSnapshotOfStream ==
    snapshot # None =>
        \A t \in Range(open_positions) :
            ~HeldTooLong(t, Val(snapshot).timestamp, config)

\* C7 amended: a trade is closed while processing the first snapshot of its
\* own symbol that is later than entry_time + max_position_hold_time, with
\* exit_time that snapshot's timestamp and exit prices from the books stored
\* at that moment; a trade closed while outside the exit band is closed by
\* such a snapshot and by no earlier one.
C7_ClosedAtFirstLateSnapshotOfSymbol ==
    [][Processes =>
        \A t \in Range(open_positions) :
            LET ts == Val(snapshot').timestamp
                late == /\ Val(snapshot').symbol = t.canonical_symbol
                        /\ ts > t.entry_time + config.max_position_hold_time
            IN  /\ late =>
                     \E c \in ClosedByStep :
                        /\ c.trade_id = t.trade_id
                        /\ c.exit_time = Some(ts)
                        /\ c.long_exit_price
                              = Some(VWAP(LongBook(t, orderbook_store').bids,
                                          t.size_in_coins))
                        /\ c.short_exit_price
                              = Some(VWAP(ShortBook(t, orderbook_store').asks,
                                          t.size_in_coins))
                /\ (t.trade_id \in Ids(closed_positions')
                    /\ ~InExitBand(t, orderbook_store', config)) => late]_vars

\* the latest snapshot, later than the one before it, closed a trade that
\* was outside the exit band and past its hold time
WitC7_ClosedByTimeout ==
    /\ snapshot # None
    /\ Len(equity_curve) >= 2
    /\ equity_curve[Len(equity_curve) - 1].timestamp < Val(snapshot).timestamp
    /\ \E c \in Range(closed_positions) :
          /\ c.exit_time = Some(Val(snapshot).timestamp)
          /\ c.canonical_symbol = Val(snapshot).symbol
          /\ HeldTooLong(c, Val(snapshot).timestamp, config)
          /\ ~InExitBand(c, orderbook_store, config)

\* C8: every closed trade has exit_time > entry_time, and every open trade
\* has exit_time = None.
C8_ExitStrictlyAfterEntry ==
    /\ \A c \in Range(closed_positions) :
          c.exit_time # None /\ Val(c.exit_time) > c.entry_time
    /\ \A t \in Range(open_positions) : t.exit_time = None

\* C9: every trade of the final result, closed or still open, has
\* net_pnl = gross_pnl - fees.
C9_NetIsGrossMinusFees ==
    result # None =>
        \A t \in Range(Val(result).trades) :
            t.net_pnl = t.gross_pnl - t.fees

\* C10: a trade the step closes was open before it; its exit prices are the
\* volume-weighted prices of selling its size into the long venue's bids
\* and buying it from the short venue's asks, gross_pnl is
\* (long_exit - long_entry) * size + (short_entry - short_exit) * size, its
\* fees are the entry fees plus the taker fees of the two exit legs, is_open
\* is false, and it is in the closed list once and no longer in the open
\* set; the closed list only grows.
C10_ExitSettlement ==
    [][Processes =>
        /\ closed_positions
              = SubSeq(closed_positions', 1, Len(closed_positions))
        /\ \A c \in ClosedByStep :
              \E t \in Range(open_positions) :
                 LET bids == LongBook(t, orderbook_store').bids
                     asks == ShortBook(t, orderbook_store').asks
                     long_exit == VWAP(bids, t.size_in_coins)
                     short_exit == VWAP(asks, t.size_in_coins)
                 IN  /\ c.trade_id = t.trade_id
                     /\ c.long_exit_price = Some(long_exit)
                     /\ c.short_exit_price = Some(short_exit)
                     /\ c.gross_pnl
                           = (long_exit - t.long_entry_price) * t.size_in_coins
                             + (t.short_entry_price - short_exit)
                                  * t.size_in_coins
                     /\ c.fees
                           = t.fees
                             + TakerFee(t.long_exchange, bids, t.size_in_coins)
                             + TakerFee(t.short_exchange, asks,
                                        t.size_in_coins)
                     /\ c.net_pnl = c.gross_pnl - c.fees
                     /\ ~c.is_open
                     /\ c.trade_id \notin Ids(open_positions')
                     /\ Cardinality({k \in 1..Len(closed_positions') :
                            closed_positions'[k].trade_id = c.trade_id}) = 1
        /\ \A t \in Range(open_positions') :
              t.is_open /\ t.trade_id \notin Ids(closed_positions')]_vars

\* a trade was closed at a profit before fees
WitC10_ClosedWithGrossProfit ==
    \E c \in Range(closed_positions) :
        /\ c.gross_pnl > 0
        /\ c.fees > 0
        /\ c.long_exit_price # None

-----------------------------------------------------------------------------
(* Properties of the equity curve *)

\* mark-to-market of one open trade at the latest books of its two venues
MarkOf(t, store) ==
    IF LongBook(t, store).bids # <<>> /\ ShortBook(t, store).asks # <<>>
    THEN (Dec(LongBook(t, store).bids[1].price) - t.long_entry_price)
             * t.size_in_coins
         + (t.short_entry_price - Dec(ShortBook(t, store).asks[1].price))
             * t.size_in_coins
    ELSE 0

\* C11: the curve has one sample per processed snapshot; in every sample
\* peak >= equity and drawdown = peak - equity >= 0; the peak never
\* decreases from one sample to the next; and the newest sample's equity is
\* the net PnL of the closed trades plus the marks of the open trades.
C11_EquityCurveWellFormed ==
    /\ Len(equity_curve) = snapshot_count
    /\ \A k \in 1..Len(equity_curve) :
          /\ equity_curve[k].peak >= equity_curve[k].equity
          /\ equity_curve[k].drawdown
                = equity_curve[k].peak - equity_curve[k].equity
          /\ equity_curve[k].drawdown >= 0
          /\ k > 1 => equity_curve[k].peak >= equity_curve[k - 1].peak
    /\ snapshot_count > 0 =>
          /\ equity_curve[Len(equity_curve)].equity
                = SumSeq([k \in 1..Len(closed_positions) |->
                             closed_positions[k].net_pnl])
                  + SumSeq([k \in 1..Len(open_positions) |->
                               MarkOf(open_positions[k], orderbook_store)])
          /\ equity_curve[Len(equity_curve)].timestamp
                = Val(snapshot).timestamp

\* the equity fell below an earlier peak after the peak had risen
WitC11_DrawdownAfterPeakRose ==
    \E k \in 2..Len(equity_curve) :
        /\ equity_curve[k].drawdown > 0
        /\ equity_curve[k].peak > 0
        /\ equity_curve[k].equity < equity_curve[k - 1].equity

-----------------------------------------------------------------------------
(* Properties of the playback *)

Selected(r) == r.exchange \in playback.exchanges /\ r.symbol \in playback.symbols

\* the stored rows of the selected venues and symbols in [start_time, end_time]
InRange ==
    {r \in TableRows :
        /\ Selected(r)
        /\ r.timestamp >= playback.start_time
        /\ r.timestamp <= playback.end_time}

\* the value the next query compares the timestamps with
Cursor == IF last_timestamp = None THEN playback.start_time
          ELSE Val(last_timestamp)

NoRowMalformed == \A r \in TableRows : r.well_formed

\* C12: the snapshots the playback has yielded are in non-decreasing
\* timestamp order, within a batch and from one batch to the next.
C12_YieldedInTimestampOrder ==
    \A i, j \in 1..Len(yielded) :
        i < j => yielded[i].timestamp <= yielded[j].timestamp

\* snapshots of equal and of increasing timestamps came out of two batches
WitC12_OrderAcrossBatches ==
    /\ loads >= 2
    /\ Len(yielded) >= 3
    /\ \E i \in 1..(Len(yielded) - 1) :
          yielded[i].timestamp = yielded[i + 1].timestamp
    /\ \E i \in 1..(Len(yielded) - 1) :
          yielded[i].timestamp < yielded[i + 1].timestamp

\* C13: when no row is malformed and the playback has signalled exhaustion,
\* the sequence it yielded is one a single unbounded batch returns: every
\* row that query selects, once, in timestamp order.
C13_BatchingInvisible ==
    (stops > 0 /\ NoRowMalformed) =>
        yielded \in OrderedByTimestamp(
                        batch_rows(TableRows, playback, playback.start_time))

\* C14: when no row is malformed and the playback has signalled exhaustion,
\* it has yielded exactly the stored rows of the selected venues and symbols
\* with start_time <= timestamp <= end_time, each once, and as many as
\* get_snapshot_count reports.
C14_YieldsClosedRange ==
    (stops > 0 /\ NoRowMalformed) =>
        /\ {yielded[i] : i \in 1..Len(yielded)} = InRange
        /\ Len(yielded) = Cardinality(InRange)
        /\ Len(yielded) = get_snapshot_count(TableRows, playback)

\* C15: a load that makes the playback signal exhaustion leaves no
\* well-formed row of the selected venues and symbols between the cursor
\* and end_time; what has been yielded is in timestamp order.
C15_MalformedRowsSkippedIndividually ==
    [][/\ (~exhausted /\ exhausted') =>
              \A r \in batch_rows(TableRows, playback, Cursor) :
                  ~r.well_formed
       /\ C12_YieldedInTimestampOrder']_vars

\* C16: exhaustion is signalled only with _exhausted set, and once it has
\* been signalled every further request signals it again, yields nothing
\* and loads nothing.
C16_ExhaustionIsFinal ==
    [][/\ stops' > stops => exhausted'
       /\ stops > 0 => /\ stops' = stops + 1
                       /\ exhausted'
                       /\ yielded' = yielded
                       /\ loads' = loads
                       /\ current_batch' = current_batch]_vars

\* exhaustion was signalled twice after snapshots had been yielded
WitC16_AskedAgainAfterExhaustion ==
    /\ stops >= 2
    /\ yielded # <<>>
    /\ loads >= 2

-----------------------------------------------------------------------------
(* Properties of run *)

\* C17: close() has been called exactly once when run has ended after a
\* successful connect() (exhaustion, exception, cancellation) and not at
\* all before; when connect() fails run ends without a result, and only a
\* run that reached its end has a result.
C17_CloseOnEveryExitPath ==
    /\ pc \in {"done", "raised", "cancelled"} => close_calls = 1
    /\ pc \in {"start", "running", "connect_failed"} => close_calls = 0
    /\ pc = "connect_failed" => result = None
    /\ result # None <=> pc = "done"

\* run was cancelled with a trade open
WitC17_CancelledWithOpenTrade ==
    /\ pc = "cancelled"
    /\ open_positions # <<>>
    /\ close_calls = 1

-----------------------------------------------------------------------------
(* Properties of the slippage calculator *)

\* the side of the book the request consumes
ConsumedSide ==
    IF request.side = "buy" THEN request.orderbook.asks
    ELSE request.orderbook.bids

\* prices of the fills of a result
FillPrices(res) == {Dec(res.fills[k][1]) : k \in 1..Len(res.fills)}

\* C18: filled_quantity + unfilled_quantity is the requested size, with
\* filled_quantity what the walk takes from the side; slippage_bps and
\* slippage_abs are not negative; when anything was filled, actual_price is
\* at least the lowest and at most the highest fill price.
C18_SlippageResultWellFormed ==
    slippage # None =>
        /\ Val(slippage).filled_quantity + Val(slippage).unfilled_quantity
              = request.size_in_coins
        /\ Val(slippage).filled_quantity
              = FilledOf(ConsumedSide, request.size_in_coins)
        /\ Val(slippage).slippage_bps >= 0
        /\ Val(slippage).slippage_abs >= 0
        /\ Val(slippage).filled_quantity > 0 =>
              /\ \E p \in FillPrices(Val(slippage)) :
                    p <= Val(slippage).actual_price
              /\ \E p \in FillPrices(Val(slippage)) :
                    p >= Val(slippage).actual_price

\* an order filled in part across levels of different prices, at a price
\* strictly between the lowest and the highest fill
WitC18_PartialFillAcrossLevels ==
    /\ slippage # None
    /\ Val(slippage).filled_quantity > 0
    /\ Val(slippage).unfilled_quantity > 0
    /\ Val(slippage).slippage_bps > 0
    /\ \E p \in FillPrices(Val(slippage)) : p < Val(slippage).actual_price
    /\ \E p \in FillPrices(Val(slippage)) : p > Val(slippage).actual_price

\* C19: insufficient_liquidity is true exactly when part of the requested
\* size remained unfilled or the consumed side was empty.
C19_InsufficientIffUnfilledOrEmptySide ==
    slippage # None =>
        (Val(slippage).insufficient_liquidity
            <=> \/ request.size_in_coins
                      - FilledOf(ConsumedSide, request.size_in_coins) > 0
                \/ ConsumedSide = <<>>)

-----------------------------------------------------------------------------
(* Properties of the scanner *)

\* the venues holding a book of the symbol with a bid and an ask
TwoSided(store, symbol) ==
    {v \in Venues :
        /\ store_get(store, v, symbol) # None
        /\ BookOf(store, v, symbol).bids # <<>>
        /\ BookOf(store, v, symbol).asks # <<>>}

\* direction_spread_bps of (long l, short s) is at least that of (l2, s2),
\* compared exactly
SpreadAtLeast(store, symbol, l, s, l2, s2) ==
    (BookOf(store, s, symbol).bids[1].price
        - BookOf(store, l, symbol).asks[1].price)
           * BookOf(store, l2, symbol).asks[1].price
    >= (BookOf(store, s2, symbol).bids[1].price
           - BookOf(store, l2, symbol).asks[1].price)
              * BookOf(store, l, symbol).asks[1].price

\* a slippage result is the one of an order of the size against the levels
IsResultOf(res, levels, size) ==
    /\ res.filled_quantity = FilledOf(levels, size)
    /\ res.unfilled_quantity = size - FilledOf(levels, size)
    /\ res.actual_price = VWAP(levels, size)
    /\ res.expected_price = Dec(levels[1].price)
    /\ res.insufficient_liquidity <=> FilledOf(levels, size) < size

\* C20: with at least two venues holding two-sided books of the symbol the
\* scanner returns a candidate; its venues are two such venues, no pair of
\* such venues has a greater direction_spread_bps in either direction, its
\* spread_bps is the direction_spread_bps of its own pair, and its books
\* and slippage results are those of its long and short venue.
C20_CandidateMaximizesSpread ==
    (snapshot # None /\ Cardinality(TwoSided(orderbook_store, "BTC")) >= 2)
    => /\ spread_info # None
       /\ LET c == Val(spread_info)
              l == c.long_exchange
              s == c.short_exchange
              two == TwoSided(orderbook_store, "BTC")
          IN  /\ l \in two /\ s \in two /\ l # s
              /\ c.symbol = "BTC"
              /\ \A l2, s2 \in two :
                    l2 # s2 => SpreadAtLeast(orderbook_store, "BTC",
                                             l, s, l2, s2)
              /\ c.long_book = BookOf(orderbook_store, l, "BTC")
              /\ c.short_book = BookOf(orderbook_store, s, "BTC")
              /\ c.spread_bps
                    = RoundDiv((c.short_book.bids[1].price
                                  - c.long_book.asks[1].price) * 10000 * Scale,
                               c.long_book.asks[1].price)
              /\ IsResultOf(c.long_slippage, c.long_book.asks,
                            config.size_in_coins)
              /\ IsResultOf(c.short_slippage, c.short_book.bids,
                            config.size_in_coins)
              /\ c.total_slippage_bps
                    = c.long_slippage.slippage_bps
                      + c.short_slippage.slippage_bps
              /\ c.can_execute
                    <=> /\ FilledOf(c.long_book.asks, config.size_in_coins)
                              = config.size_in_coins
                        /\ FilledOf(c.short_book.bids, config.size_in_coins)
                              = config.size_in_coins

\* three two-sided venues, and the candidate is the second direction of the
\* last pair scanned, strictly better than every other pair and direction
WitC20_BestIsLastPairSecondDirection ==
    /\ snapshot # None
    /\ spread_info # None
    /\ TwoSided(orderbook_store, "BTC") = Venues
    /\ Val(spread_info).long_exchange = orderbook_store.keys[3]
    /\ Val(spread_info).short_exchange = orderbook_store.keys[2]
    /\ Val(spread_info).spread_bps > 0
    /\ \A l2, s2 \in Venues :
          (l2 # s2 /\ <<l2, s2>> # <<orderbook_store.keys[3],
                                     orderbook_store.keys[2]>>)
          => ~SpreadAtLeast(orderbook_store, "BTC", l2, s2,
                            orderbook_store.keys[3], orderbook_store.keys[2])

\* position of a venue in the order the scanner iterates the venues in
VenueIndex(store, symbol, v) ==
    CHOOSE i \in 1..Len(get_all_for_symbol(store, symbol)) :
        get_all_for_symbol(store, symbol)[i] = v

\* place of (long l, short s) in the scanner's iteration: pairs (v1, v2) in
\* the order of the two loops, and in a pair long v1 / short v2 first
IterationRank(store, symbol, l, s) ==
    LET i == VenueIndex(store, symbol, l)
        j == VenueIndex(store, symbol, s)
    IN  IF i < j THEN 2 * (i * (Cardinality(Venues) + 1) + j)
        ELSE 2 * (j * (Cardinality(Venues) + 1) + i) + 1

RankSecondDirectionFirst(store, symbol, l, s) ==
    LET i == VenueIndex(store, symbol, l)
        j == VenueIndex(store, symbol, s)
    IN  IF i < j THEN 2 * (i * (Cardinality(Venues) + 1) + j) + 1
        ELSE 2 * (j * (Cardinality(Venues) + 1) + i)

Holding(store, symbol) ==
    {v \in Venues : store_get(store, v, symbol) # None}

\* C22: the legs of a returned candidate are venues whose book of the
\* symbol has a bid and an ask; with fewer than two such venues, and so
\* with fewer than two venues holding a book of the symbol, the scanner
\* returns no opportunity.
C22_OneSidedBooksSkipped ==
    snapshot # None =>
        /\ spread_info # None =>
              /\ Val(spread_info).long_exchange
                    \in TwoSided(orderbook_store, "BTC")
              /\ Val(spread_info).short_exchange
                    \in TwoSided(orderbook_store, "BTC")
        /\ Cardinality(Holding(orderbook_store, "BTC")) < 2
              => spread_info = None
        /\ Cardinality(TwoSided(orderbook_store, "BTC")) < 2
              => spread_info = None

\* a candidate was returned although the venue scanned first has no bids
WitC22_CandidateBesideOneSidedVenue ==
    /\ snapshot # None
    /\ spread_info # None
    /\ Holding(orderbook_store, "BTC") = Venues
    /\ BookOf(orderbook_store, orderbook_store.keys[1], "BTC").bids = <<>>
    /\ BookOf(orderbook_store, orderbook_store.keys[1], "BTC").asks # <<>>

Crossed(book) ==
    /\ book.bids # <<>>
    /\ book.asks # <<>>
    /\ book.bids[1].price >= book.asks[1].price

\* C23: neither leg of a returned candidate is a crossed book.
C23_CrossedBookIsNoOpportunity ==
    (snapshot # None /\ spread_info # None) =>
        /\ ~Crossed(Val(spread_info).long_book)
        /\ ~Crossed(Val(spread_info).short_book)

-----------------------------------------------------------------------------
(* Properties of the book store *)

\* C24: the empty store answers None for every key; after an update, get
\* of the snapshot's (venue, symbol) is that snapshot and get of every
\* other key is what it was; get_all_for_symbol lists, once each, exactly
\* the venues for which get answers a snapshot; a venue has one entry.
C24_StoreHoldsLatestSnapshot ==
    /\ \A v \in Exchanges, sym \in Symbols :
          store_get(orderbook_store, v, sym) = None
    /\ [][Processes =>
            /\ store_get(orderbook_store', Val(snapshot').exchange,
                         Val(snapshot').symbol) = snapshot'
            /\ \A v \in Exchanges, sym \in Symbols :
                  <<v, sym>> # <<Val(snapshot').exchange,
                                 Val(snapshot').symbol>>
                  => store_get(orderbook_store', v, sym)
                        = store_get(orderbook_store, v, sym)
            /\ \A sym \in Symbols :
                  /\ Range(get_all_for_symbol(orderbook_store', sym))
                        = {v \in Exchanges :
                              store_get(orderbook_store', v, sym) # None}
                  /\ Len(get_all_for_symbol(orderbook_store', sym))
                        = Cardinality(
                              Range(get_all_for_symbol(orderbook_store', sym)))
            /\ Len(orderbook_store'.keys)
                  = Cardinality(Range(orderbook_store'.keys))]_vars

\* an update replaced a venue's snapshot of one symbol while the venue's
\* older snapshot of another symbol stayed
WitC24_ReplacedBesideOlderEntry ==
    /\ snapshot # None
    /\ snapshot_count >= 3
    /\ \E sym \in Symbols :
          /\ sym # Val(snapshot).symbol
          /\ store_get(orderbook_store, Val(snapshot).exchange, sym) # None
          /\ Val(store_get(orderbook_store, Val(snapshot).exchange,
                           sym)).timestamp < Val(snapshot).timestamp
    /\ store_get(orderbook_store, Val(snapshot).exchange,
                 Val(snapshot).symbol) = snapshot
    /\ \E k \in 1..Len(equity_curve) - 1 :
          equity_curve[k].timestamp < Val(snapshot).timestamp

-----------------------------------------------------------------------------
(* Properties of the simulated venue *)

Terminal == {"filled", "cancelled"}

\* the transitions of the order state machine after open
StateMachine ==
    {<<"open", "partially_filled">>, <<"open", "filled">>,
     <<"partially_filled", "filled">>, <<"open", "cancelled">>}

\* over one step every order keeps its status or moves along an allowed
\* transition, and an order placed in the step is open or has moved from
\* open by fills
StatusMovesAlong(allowed) ==
    \A id \in 1..Len(venue'.orders) :
        IF id <= Len(venue.orders)
        THEN \/ venue'.orders[id].status = venue.orders[id].status
             \/ <<venue.orders[id].status, venue'.orders[id].status>>
                    \in allowed
        ELSE venue'.orders[id].status
                \in {"open", "partially_filled", "filled"}

\* C25: under any calls of place_order, update_orderbook and cancel_order
\* a status changes only along open -> partially_filled, open -> filled,
\* partially_filled -> filled and open -> cancelled.
C25_StatusFollowsStateMachine == [][StatusMovesAlong(StateMachine)]_vars

\* C25: under any calls of place_order, update_orderbook and cancel_order
\* a status changes only along the four transitions of the state machine
\* or from partially_filled to cancelled.
C25_PartiallyFilledMayBeCancelled ==
    [][StatusMovesAlong(StateMachine
                        \cup {<<"partially_filled", "cancelled">>})]_vars

\* one order was cancelled after a partial fill, another was filled by
\* fills of two different books
WitC25_CancelledAfterPartialFill ==
    \E a, b \in 1..Len(venue.orders) :
        /\ venue.orders[a].status = "cancelled"
        /\ venue.orders[a].fills # <<>>
        /\ venue.orders[b].status = "filled"
        /\ Len(venue.orders[b].fills) >= 2
        /\ venue.orders[b].fills[1].timestamp
              < venue.orders[b].fills[2].timestamp

FilledSum(order) ==
    SumSeq([k \in 1..Len(order.fills) |-> order.fills[k].quantity])

\* C26: an order that is filled or cancelled is never changed again
\* (status, filled_quantity, fills), and for every order
\* 0 <= filled_quantity <= quantity and filled_quantity is the sum of the
\* quantities of its fills.
C26_TerminalOrdersAndFilledQuantity ==
    /\ [](\A id \in 1..Len(venue.orders) :
             /\ 0 <= venue.orders[id].filled_quantity
             /\ venue.orders[id].filled_quantity <= venue.orders[id].quantity
             /\ venue.orders[id].filled_quantity
                   = FilledSum(venue.orders[id]))
    /\ [][\A id \in 1..Len(venue.orders) :
             venue.orders[id].status \in Terminal
             => venue'.orders[id] = venue.orders[id]]_vars

\* a filled order has since seen a book of its symbol with liquidity on
\* the side it takes, and a cancel
WitC26_FilledOrderMatchedAndCancelledAgain ==
    /\ call.op = "cancel_order"
    /\ ~call.returned
    /\ call.order_id \in 1..Len(venue.orders)
    /\ venue.orders[call.order_id].status = "filled"
    /\ venue.current_book # None
    /\ Val(venue.current_book).symbol = venue.orders[call.order_id].symbol
    /\ \A k \in 1..Len(venue.orders[call.order_id].fills) :
          venue.orders[call.order_id].fills[k].timestamp
             < Val(venue.current_book).timestamp
    /\ IF venue.orders[call.order_id].side = "buy"
       THEN Val(venue.current_book).asks # <<>>
       ELSE Val(venue.current_book).bids # <<>>

\* C27: cancel_order returns true exactly for a known order that is
\* neither filled nor cancelled, and then has made it cancelled and taken
\* it out of the open set, changing no other order; when it returns false
\* the whole venue is as before; a cancel that follows a cancel of the same
\* order returns false.
C27_CancelReportsTheTransition ==
    [][call'.op = "cancel_order" =>
          /\ ~call'.raised
          /\ call'.returned
                <=> /\ call'.order_id \in 1..Len(venue.orders)
                    /\ venue.orders[call'.order_id].status \notin Terminal
          /\ call'.returned =>
                /\ venue'.orders
                      = [venue.orders EXCEPT
                            ![call'.order_id].status = "cancelled"]
                /\ call'.order_id \notin Range(venue'.open_orders)
                /\ \A id \in Range(venue.open_orders) \ {call'.order_id} :
                      id \in Range(venue'.open_orders)
                /\ venue'.current_book = venue.current_book
          /\ ~call'.returned => venue' = venue
          /\ (call.op = "cancel_order" /\ call.order_id = call'.order_id)
                => ~call'.returned]_vars

\* a partially filled order was cancelled, and a later cancel of it, with
\* other orders open, returned false
WitC27_SecondCancelRefused ==
    /\ call.op = "cancel_order"
    /\ ~call.returned
    /\ call.order_id \in 1..Len(venue.orders)
    /\ venue.orders[call.order_id].status = "cancelled"
    /\ venue.orders[call.order_id].fills # <<>>
    /\ venue.open_orders # <<>>

\* C28: place_order of a limit order without a price raises and leaves the
\* venue as it was: no order in the order set or the open set, no fill and
\* no order-update callback.
C28_LimitWithoutPriceRejected ==
    [][(/\ call'.op = "place_order"
        /\ Val(call'.request).order_type = "limit"
        /\ Val(call'.request).price = None)
       => /\ call'.raised
          /\ venue' = venue]_vars

\* a limit order without a price was refused by a venue that holds an open
\* order and a book of the symbol
WitC28_RejectedWithBookAndOrders ==
    /\ call.op = "place_order"
    /\ call.raised
    /\ Val(call.request).order_type = "limit"
    /\ Val(call.request).price = None
    /\ venue.open_orders # <<>>
    /\ venue.current_book # None
    /\ Val(venue.current_book).symbol = Val(call.request).symbol
    /\ Val(venue.current_book).asks # <<>>

\* an unfilled open limit order whose price is inside the spread of the
\* venue's book of its symbol
RestsInsideSpread(order, book) ==
    /\ order.status = "open"
    /\ order.fills = <<>>
    /\ order.order_type = "limit"
    /\ book # None
    /\ Val(book).symbol = order.symbol
    /\ Val(book).bids # <<>>
    /\ Val(book).asks # <<>>
    /\ IF order.side = "buy"
       THEN Val(order.price) < Val(book).asks[1].price
       ELSE Val(order.price) > Val(book).bids[1].price

FeeAtRate(fill, rate) == fill.fee = fill.quantity * fill.price * rate

\* C29: the fills a later update_orderbook gives to a limit order that
\* rested inside the spread are maker fills charged the maker rate; the
\* fills of an order on its placement, which crosses the book, are taker
\* fills charged the taker rate.
C29_RestingOrderFilledAsMaker ==
    [][\A id \in 1..Len(venue'.orders) :
          IF id <= Len(venue.orders)
          THEN RestsInsideSpread(venue.orders[id], venue.current_book)
               => \A k \in 1..Len(venue'.orders[id].fills) :
                     /\ venue'.orders[id].fills[k].is_maker
                     /\ FeeAtRate(venue'.orders[id].fills[k],
                                  get_fee(venue.fee_structure, TRUE))
          ELSE \A k \in 1..Len(venue'.orders[id].fills) :
                  /\ ~venue'.orders[id].fills[k].is_maker
                  /\ FeeAtRate(venue'.orders[id].fills[k],
                               get_fee(venue.fee_structure, FALSE))]_vars

-----------------------------------------------------------------------------
(* Two runs over the same snapshots *)

\* the trade list of the second run: the trades of this run, each with the
\* id the second run's uuid4 gave it
TradesOfRerun ==
    [k \in 1..Len(Val(result).trades) |->
        [Val(result).trades[k] EXCEPT
            !.trade_id = Val(rerun)[Val(result).trades[k].trade_id]]]

\* C30: a second run over the same snapshots with the same configuration
\* ends with the same list of trades, every field of every trade equal and
\* in the same order (its statistics are computed from those trades and
\* the same snapshots).
C30_TwoRunsSameTrades ==
    (rerun # None /\ result # None) => TradesOfRerun = Val(result).trades

-----------------------------------------------------------------------------
(* The scenario of a single clean trade *)

\* the one trade of the scenario while it is open
OpenedAsExpected(t) ==
    /\ t.long_exchange = "binance"
    /\ t.short_exchange = "bybit"
    /\ t.long_entry_price = Dec(100)
    /\ t.short_entry_price = Dec(102)
    /\ t.entry_spread_bps = Dec(200)

\* the one trade of the scenario once it is closed
ClosedAsExpected(t) ==
    /\ OpenedAsExpected(t)
    /\ t.long_exit_price = Some(Dec(101))
    /\ t.short_exit_price = Some(Dec(101))
    /\ t.gross_pnl = Dec(2)

\* C31: after the two snapshots of the first tick exactly one trade is
\* open, long at 100, short at 102, entered at 200 bps; after the two
\* snapshots of the second tick it is closed at 101 and 101 with a gross
\* PnL of 2, and there is no other trade.
C31_ScenarioSingleCleanTrade ==
    /\ snapshot_count = 2 =>
          /\ closed_positions = <<>>
          /\ Len(open_positions) = 1
          /\ OpenedAsExpected(open_positions[1])
    /\ snapshot_count = 4 =>
          /\ open_positions = <<>>
          /\ Len(closed_positions) = 1
          /\ ClosedAsExpected(closed_positions[1])

\* C31: when both books of the first tick have a bid and an ask, its
\* second snapshot opens the trade, long at 100, short at 102, at 200 bps;
\* the second snapshot of the second tick closes that trade at 101 and 101
\* with a gross PnL of 2; no other trade is opened.
C31_ScenarioWithTwoSidedBooks ==
    [][/\ (/\ snapshot_count = 1
           /\ snapshot_count' = 2
           /\ TwoSided(orderbook_store', "BTC") = Exchanges)
          => /\ closed_positions' = <<>>
             /\ Len(open_positions') = 1
             /\ OpenedAsExpected(open_positions'[1])
       /\ (/\ snapshot_count = 3
           /\ snapshot_count' = 4
           /\ open_positions # <<>>)
          => /\ open_positions' = <<>>
             /\ Len(closed_positions') = 1
             /\ ClosedAsExpected(closed_positions'[1])
       /\ Len(open_positions') + Len(closed_positions') <= 1
       /\ snapshot_count' = 3 => closed_positions' = <<>>]_vars

\* the trade was opened on two-sided books and closed at the second tick
WitC31_OpenedAndClosed ==
    /\ snapshot_count = 4
    /\ Len(closed_positions) = 1
    /\ ClosedAsExpected(closed_positions[1])
    /\ Val(closed_positions[1].exit_time) = closed_positions[1].entry_time + 1
    /\ pc = "done"

-----------------------------------------------------------------------------
(* Configuration errors *)

\* C32: a run configured with a negative size_in_coins processes no
\* snapshot, returns no result and holds no trade.
C32_NegativeSizeFailsFast ==
    config.size_in_coins < 0
    => /\ snapshot_count = 0
       /\ pc # "done"
       /\ result = None
       /\ open_positions = <<>>
       /\ closed_positions = <<>>

-----------------------------------------------------------------------------
(* Matching *)

\* the fills an order got in the step
NewFills(id) ==
    SubSeq(venue'.orders[id].fills,
           (IF id <= Len(venue.orders) THEN Len(venue.orders[id].fills)
            ELSE 0) + 1,
           Len(venue'.orders[id].fills))

\* the step matched the order against the venue's book: place_order of the
\* order with a book of its symbol present, or update_orderbook with a book
\* of the symbol of an order that was neither filled nor cancelled
Matched(id) ==
    IF id > Len(venue.orders)
    THEN /\ venue.current_book # None
         /\ Val(venue.current_book).symbol = venue'.orders[id].symbol
    ELSE /\ call'.op = "update_orderbook"
         /\ venue'.current_book # venue.current_book
         /\ Val(venue'.current_book).symbol = venue.orders[id].symbol
         /\ venue.orders[id].status \notin Terminal

\* the side of the venue's book the order takes from
OppositeSide(id) ==
    IF venue'.orders[id].side = "buy" THEN Val(venue'.current_book).asks
    ELSE Val(venue'.current_book).bids

WithinLimit(order, price) ==
    order.order_type = "limit"
    => IF order.side = "buy" THEN price <= Val(order.price)
       ELSE price >= Val(order.price)

\* C33: the fills of a step are taken from the top of the opposite side,
\* level by level, each level whole except the last; no fill of a limit
\* order is beyond its limit price; matching ends with the order filled,
\* the side exhausted, or, for a limit order only, at the first level beyond
\* the limit.
C33_MatchingRespectsLimit ==
    [][\A id \in 1..Len(venue'.orders) :
          /\ NewFills(id) # <<>> => Matched(id)
          /\ \A j \in 1..Len(NewFills(id)) :
                /\ j <= Len(OppositeSide(id))
                /\ NewFills(id)[j].price = OppositeSide(id)[j].price
                /\ NewFills(id)[j].quantity > 0
                /\ NewFills(id)[j].quantity <= OppositeSide(id)[j].quantity
                /\ j < Len(NewFills(id))
                      => NewFills(id)[j].quantity
                            = OppositeSide(id)[j].quantity
                /\ WithinLimit(venue'.orders[id], NewFills(id)[j].price)
          /\ Matched(id) =>
                \/ venue'.orders[id].status = "filled"
                \/ Len(NewFills(id)) = Len(OppositeSide(id))
                \/ /\ venue'.orders[id].order_type = "limit"
                   /\ ~WithinLimit(venue'.orders[id],
                          OppositeSide(id)[Len(NewFills(id)) + 1].price)]_vars

\* a limit buy stopped below a level beyond its limit, and a market order
\* took two levels and exhausted the side
WitC33_StoppedAtLimitAndSideExhausted ==
    \E a, b \in 1..Len(venue.orders) :
        /\ venue.orders[a].order_type = "limit"
        /\ venue.orders[a].status = "partially_filled"
        /\ venue.orders[a].fills[1].price = Val(venue.orders[a].price)
        /\ Len(venue.orders[a].fills) = 1
        /\ venue.orders[b].order_type = "market"
        /\ venue.orders[b].status = "partially_filled"
        /\ Len(venue.orders[b].fills) = 2

-----------------------------------------------------------------------------
(* Immediate fill at placement *)

\* the order place_order has just returned
Placed == venue'.orders[call'.order_id]

\* the order as place_order records it, before any fill
Recorded(ex, req) ==
    [ex EXCEPT !.orders = Append(@, SimulatedOrder(Len(ex.orders) + 1,
                              ex.exchange_name, req.symbol, req.side,
                              req.order_type, req.price, req.quantity))]

\* C34: when place_order returns an order for a symbol of which the venue
\* has been given a book, the order is as a fill attempt against that book
\* leaves it, whatever symbol the venue's last book was for.
C34_PlaceOrderTriesBookOfSymbol ==
    [][/\ call'.op = "place_order"
       /\ ~call'.raised
       /\ call' # call \/ venue' # venue
       /\ books_received[Placed.symbol] # None
       => Placed = try_fill_order(Recorded(venue, Val(call'.request)),
                        call'.order_id,
                        Val(books_received[Placed.symbol])
                    ).orders[call'.order_id]]_vars

-----------------------------------------------------------------------------
(* The open-order set *)

\* C35: after every call of the venue the open-order set holds only orders
\* that are open or partially filled.
C35_OpenSetHoldsLiveOrders ==
    \A k \in 1..Len(venue.open_orders) :
        venue.orders[venue.open_orders[k]].status
            \in {"open", "partially_filled"}

-----------------------------------------------------------------------------
(* Observer callbacks *)

Callbacks == {"on_trade_open", "on_trade_close", "on_snapshot"}

\* C36: in the processing of a snapshot every observer callback comes after
\* the equity update, and the per-snapshot callback is called exactly once.
C36_CallbacksAfterEquitySample ==
    snapshot_count > 0
    => /\ \A k \in 1..Len(emitted) :
             emitted[k] \in Callbacks
             => \E j \in 1..(k - 1) : emitted[j] = "update_equity"
       /\ Cardinality({k \in 1..Len(emitted) : emitted[k] = "on_snapshot"})
             = 1

-----------------------------------------------------------------------------
(* Average spread *)

\* C37: the result's avg_spread_bps is the sum of the scanner's spread_bps
\* divided by the number of snapshots on which the scanner returned an
\* opportunity.
C37_AvgSpreadOverOpportunities ==
    result # None /\ opportunity_count > 0
    => Val(result).avg_spread_bps = DecDiv(spread_sum, opportunity_count)

-----------------------------------------------------------------------------
(* Exits and the depth of the books *)

\* the exit leg of a trade the step closed, as _exit_spread computes it
\* against the book of the store the step leaves
ExitLeg(t, exchange, side) ==
    calculate(Val(store_get(orderbook_store', exchange, t.canonical_symbol)),
              side, t.size_in_coins)

\* C38: every trade a step closes has positive exit prices, and both of its
\* exit legs were filled for the full size.
C38_ClosedAgainstAbsorbingBooks ==
    [][\A t \in ClosedByStep :
          /\ Val(t.long_exit_price) > 0
          /\ Val(t.short_exit_price) > 0
          /\ ~ExitLeg(t, t.long_exchange, "sell").insufficient_liquidity
          /\ ~ExitLeg(t, t.short_exchange, "buy").insufficient_liquidity]_vars

-----------------------------------------------------------------------------
(* Derived values of a book *)

\* C39: a book with bids and asks has all of best_bid, best_ask, mid,
\* spread and spread_bps, with spread_bps = (ask - bid) / mid * 10000; a
\* derived value is None only when a side it reads is empty.
C39_DerivedValuesPresent ==
    derived # None
    => LET book == Val(snapshot)
           d == Val(derived)
       IN  /\ d.best_bid = None <=> book.bids = <<>>
           /\ d.best_ask = None <=> book.asks = <<>>
           /\ \A v \in {d.mid_price, d.spread, d.spread_bps} :
                 v = None <=> (book.bids = <<>> \/ book.asks = <<>>)
           /\ d.spread_bps # None
                 => Val(d.spread_bps)
                      = DecRatioBps(
                          Dec(book.asks[1].price - book.bids[1].price),
                          Val(d.mid_price))

-----------------------------------------------------------------------------
(* The callback of the playback *)

\* C40: play calls the registered on_snapshot callback exactly once for each
\* snapshot it plays, in yield order.
C40_PlayCallsBackOncePerSnapshot ==
    observed # None => Val(observed) = yielded

====
